---- MODULE Spec2Model ----
(***************************************************************************)
(* A model of the decision engine of vindinium-python: the A* pathfinder   *)
(* (vindinium/ai/astar.py over vindinium/models/map.py and                 *)
(* vindinium/utils/heap_queue.py), the minimax search                      *)
(* (vindinium/ai/minimax) and the move decision of the bundled bots        *)
(* (vindinium/bots).                                                       *)
(***************************************************************************)
EXTENDS Integers, Sequences, FiniteSets, TLC

(***************************************************************************)
(* Program constants (vindinium/__init__.py, vindinium/ai/astar.py).       *)
(***************************************************************************)
TILE_EMPTY == 0
TILE_WALL == 1
TILE_SPAWN == 2
TILE_TAVERN == 3
TILE_MINE == 4

cost_avoid == 4
cost_move == 1

NORTH == "North"
SOUTH == "South"
WEST == "West"
EAST == "East"
STAY == "Stay"

(***************************************************************************)
(* Bounds of the model.                                                    *)
(***************************************************************************)
\* The largest number of non-Empty tiles on an enumerated board.
MaxSpecial == 2

\* The deepest search explored.
MaxDepth == 3

\* The most State objects a search holds.
MaxStates == 5

\* The board sizes that are enumerated in full.  The number of (board, start,
\* goal) triples grows as size^4 * C(size^2, MaxSpecial), so larger boards are
\* the fixed ones of LiteralBoards.
Sizes == {1, 2, 3}

VARIABLES
    map,        \* the Map object: [size, board], board[<<x, y>>] is a tile
    game,       \* the Game object: turn, max_turns, heroes, mines, taverns
    search,     \* the Minimax object of the bot: [max_depth]
    states,     \* the State objects of a search, in the order of their creation
    heroDicts,  \* the hero dicts the State objects refer to, by address
    mineDicts,  \* the mine-owner dicts the State objects refer to, by address
    pc,         \* "idle", or the operation that has returned
    args,       \* the arguments of the operation that has returned
    ret         \* what it returned

vars == <<map, game, search, states, heroDicts, mineDicts, pc, args, ret>>

callVars == <<pc, args, ret>>

heapVars == <<states, heroDicts, mineDicts>>

None == "None"

Abs(n) == IF n < 0 THEN -n ELSE n

Tiles == {TILE_EMPTY, TILE_WALL, TILE_SPAWN, TILE_TAVERN, TILE_MINE}

Coords(size) == 0..(size - 1)

Cells(size) == Coords(size) \X Coords(size)

(***************************************************************************)
(* vindinium/models/map.py                                                 *)
(***************************************************************************)
\* Map.__getitem__: self.__board[key[0]][key[1]].
\* list.__getitem__: an index below 0 counts from the end of the list.
PyListIndex(n, i) == IF i < 0 THEN i + n ELSE i

\* list.__getitem__ of a list of n items raises IndexError for the index i.
PyListIndexRaises(n, i) == i < -n \/ i >= n

\* Map.__getitem__ raises: "self.__board[key[0]]" does, or "[key[1]]" does.
Map_getitem_raises(m, x, y) ==
    PyListIndexRaises(m.size, x) \/ PyListIndexRaises(m.size, y)

\* What Map.__getitem__ returns when it does not raise.
Map_getitem(m, x, y) ==
    m.board[<<PyListIndex(m.size, x), PyListIndex(m.size, y)>>]

(***************************************************************************)
(* vindinium/utils/functions.py                                            *)
(***************************************************************************)
distance_manhattan(x0, y0, x1, y1) == Abs(x0 - x1) + Abs(y0 - y1)

(***************************************************************************)
(* vindinium/ai/astar.py                                                   *)
(***************************************************************************)
DIR_NEIGHBORS == << <<-1, 0>>, <<1, 0>>, <<0, -1>>, <<0, 1>> >>

\* obstacle_tiles with the mine left out of the list.
obstacle_tiles_noMine == {TILE_WALL, TILE_TAVERN}

obstacle_tiles == {TILE_WALL, TILE_TAVERN, TILE_MINE}

avoid_tiles == {TILE_SPAWN}

\* __neighbors with the last direction of DIR_NEIGHBORS never tried.
AStar_neighbors_threeDirs(m, x, y, visited) ==
    LET s == m.size
        cand == [i \in 1..3 |-> <<x + DIR_NEIGHBORS[i][1], y + DIR_NEIGHBORS[i][2]>>]
        ok(c) == /\ -1 < c[1] /\ c[1] < s /\ -1 < c[2] /\ c[2] < s
                 /\ Map_getitem(m, c[1], c[2]) \notin obstacle_tiles
                 /\ \A k \in 1..Len(visited) : visited[k] # c
    IN SelectSeq(cand, ok)

\* AStar.__neighbors: the in-bounds neighbours, in the order of DIR_NEIGHBORS,
\* that are no obstacle and not yet visited.  The generator appends each one
\* to visited as it yields it; the four candidates are distinct cells, so the
\* test against the list as it was on entry decides the same.
AStar_neighbors(m, x, y, visited) ==
    LET s == m.size
        cand == [i \in 1..4 |-> <<x + DIR_NEIGHBORS[i][1], y + DIR_NEIGHBORS[i][2]>>]
        ok(c) == /\ -1 < c[1] /\ c[1] < s /\ -1 < c[2] /\ c[2] < s
                 /\ Map_getitem(m, c[1], c[2]) \notin obstacle_tiles
                 /\ \A k \in 1..Len(visited) : visited[k] # c
    IN SelectSeq(cand, ok)

(***************************************************************************)
(* vindinium/utils/heap_queue.py.  The heap holds (priority, item) tuples  *)
(* with item = (x, y, g, parent); heapq orders them as Python orders       *)
(* tuples: by priority, then x, then y, then g, then parent.  The queue is *)
(* kept here in the order of the pushes.                                   *)
(***************************************************************************)
\* (priority, (x, y, g, ...)) < (priority', (x', y', g', ...)) up to g.
EntryLess(a, b) ==
    \/ a.f < b.f
    \/ a.f = b.f /\ a.x < b.x
    \/ a.f = b.f /\ a.x = b.x /\ a.y < b.y
    \/ a.f = b.f /\ a.x = b.x /\ a.y = b.y /\ a.g < b.g

\* Two entries that tuple comparison cannot order without comparing the
\* parents (None against a tuple raises TypeError).
EntryTie(a, b) == a.f = b.f /\ a.x = b.x /\ a.y = b.y /\ a.g = b.g

HeapQueue_is_empty(q) == Len(q) = 0

HeapQueue_push(q, item, priority) ==
    Append(q, [x |-> item.x, y |-> item.y, g |-> item.g, chain |-> item.chain,
               f |-> priority])

\* The entry a stack would give: the one pushed last, whatever its priority.
HeapQueue_top_newest(q) == Len(q)

\* The index in q of the entry heappop returns: the least one.
HeapQueue_top(q) ==
    CHOOSE i \in 1..Len(q) : \A j \in 1..Len(q) : ~EntryLess(q[j], q[i])

HeapQueue_hasTie(q) ==
    \E i, j \in 1..Len(q) : i # j /\ EntryTie(q[i], q[j])

HeapQueue_without(q, i) ==
    [k \in 1..(Len(q) - 1) |-> IF k < i THEN q[k] ELSE q[k + 1]]

\* The goal test had it been for the goal cell alone.
AStar_isGoal_exact(x, y, x1, y1, adjacent) == x = x1 /\ y = y1

\* The goal test of AStar.find (astar.py line 77).
AStar_isGoal(x, y, x1, y1, adjacent) ==
    \/ x = x1 /\ y = y1
    \/ adjacent /\ (Abs(x - x1) + Abs(y - y1)) = 1

\* The cost of stepping onto a tile (astar.py line 83).
AStar_stepCost(tile) == IF tile \in avoid_tiles THEN cost_avoid ELSE cost_move

\* The result with the start left in it (no result.pop(0)).
AStar_result_keepStart(chain) == chain

\* The result AStar.find builds from the state it stopped on (lines 91-98):
\* the cells of the parent chain, start first, without the start.
AStar_result(chain) == Tail(chain)

\* The while loop of AStar.find.  An item (x, y, g, parent) is held as
\* [x, y, g, chain]: chain is the sequence of cells that following the parent
\* links from the item gives, start first.  pops counts the iterations; raised records a heap
\* that holds two entries only their parents could order.
RECURSIVE AStar_loop(_, _, _, _, _, _, _, _)
AStar_loop(m, x1, y1, adjacent, queue, visited, pops, raised) ==
    IF HeapQueue_is_empty(queue)
    THEN [found |-> FALSE, path |-> <<>>, pops |-> pops, raised |-> raised]
    ELSE LET i == HeapQueue_top(queue)
             state == queue[i]
             rest == HeapQueue_without(queue, i)
         IN IF AStar_isGoal(state.x, state.y, x1, y1, adjacent)
            THEN [found |-> TRUE, path |-> AStar_result(state.chain), pops |-> pops + 1,
                  raised |-> raised]
            ELSE LET nb == AStar_neighbors(m, state.x, state.y, visited)
                     item(k) ==
                         [x |-> nb[k][1], y |-> nb[k][2],
                          g |-> state.g
                                + AStar_stepCost(Map_getitem(m, nb[k][1], nb[k][2])),
                          chain |-> Append(state.chain, nb[k])]
                     h(k) == Abs(nb[k][1] - x1) + Abs(nb[k][2] - y1)
                     PushAll[k \in 0..Len(nb)] ==
                         IF k = 0 THEN rest
                         ELSE HeapQueue_push(PushAll[k - 1], item(k), item(k).g + h(k))
                     queue2 == PushAll[Len(nb)]
                 IN AStar_loop(m, x1, y1, adjacent, queue2,
                               visited \o nb, pops + 1,
                               raised \/ HeapQueue_hasTie(queue2))

\* AStar.find(x0, y0, x1, y1): [found, path, pops, raised]; found = FALSE is
\* the None result.
AStar_find(m, x0, y0, x1, y1) ==
    LET adjacent == Map_getitem(m, x1, y1) \in obstacle_tiles
        start == [x |-> x0, y |-> y0, g |-> 0, chain |-> << <<x0, y0>> >>]
    IN AStar_loop(m, x1, y1, adjacent, HeapQueue_push(<<>>, start, 0),
                  << <<x0, y0>> >>, 0, FALSE)

(***************************************************************************)
(* vindinium/models/game.py, hero.py, mine.py.  A Game is held as          *)
(* [turn, max_turns, heroes, mines, taverns]; heroes[i] is the Hero with   *)
(* id i, mines and taverns are in the order __processState found them.     *)
(* A mine that nobody owns has owner None, held as NoOwner.                *)
(***************************************************************************)
NoOwner == 0

HeroIds == 1..4

(***************************************************************************)
(* vindinium/ai/minimax/state.py.  A State is held by value as             *)
(* [last_move, parent, turn, heroes, mines]: parent is <<>> for None and   *)
(* <<s>> for the State s, heroes[i] is the dict of the hero with id i (the *)
(* list index i - 1) and mines maps each mine position to its owner.       *)
(***************************************************************************)
\* The dict of one Hero had _populate left mine_count at 0.
State_heroDict_noCount(hero) ==
    [x |-> hero.x, y |-> hero.y, gold |-> hero.gold,
     mine_count |-> 0, life |-> hero.life,
     spawn_x |-> hero.spawn_x, spawn_y |-> hero.spawn_y]

\* State._populate: the dict made of one Hero.
State_heroDict(hero) ==
    [x |-> hero.x, y |-> hero.y, gold |-> hero.gold,
     mine_count |-> hero.mine_count, life |-> hero.life,
     spawn_x |-> hero.spawn_x, spawn_y |-> hero.spawn_y]

\* State._populate: the dict made of the mines; a later mine at a position
\* overwrites the entry of an earlier one.
State_mineDict(mines) ==
    [pos \in {<<mines[k].x, mines[k].y>> : k \in 1..Len(mines)} |->
        LET last == CHOOSE k \in 1..Len(mines) :
                        /\ <<mines[k].x, mines[k].y>> = pos
                        /\ \A j \in (k + 1)..Len(mines) :
                              <<mines[j].x, mines[j].y>> # pos
        IN mines[last].owner]

\* State(game) for a Game.
State_ofGame(g) ==
    [last_move |-> None, parent |-> <<>>, turn |-> g.turn,
     heroes |-> [i \in 1..Len(g.heroes) |-> State_heroDict(g.heroes[i])],
     mines |-> State_mineDict(g.mines)]

\* State.clone: State(state) for a State.
State_clone(state) ==
    [last_move |-> state.last_move, parent |-> <<state>>, turn |-> state.turn,
     heroes |-> state.heroes, mines |-> state.mines]

(***************************************************************************)
(* vindinium/ai/minimax/simulation.py is not among the sources: simulate   *)
(* follows the rules the specification gives for the forward simulator.    *)
(***************************************************************************)
CommandDir(move) ==
    CASE move = NORTH -> <<0, -1>>
      [] move = SOUTH -> <<0, 1>>
      [] move = WEST -> <<-1, 0>>
      [] move = EAST -> <<1, 0>>
      [] OTHER -> <<0, 0>>

\* The hero i dies: its mines revert to unowned and it respawns with life 100.
Sim_respawn(st, i) ==
    [st EXCEPT
        !.mines = [pos \in DOMAIN st.mines |->
                      IF st.mines[pos] = i THEN NoOwner ELSE st.mines[pos]],
        !.heroes[i].mine_count = 0,
        !.heroes[i].life = 100,
        !.heroes[i].x = st.heroes[i].spawn_x,
        !.heroes[i].y = st.heroes[i].spawn_y]

\* The outcome of an act: the state, and the heroes that died in it.
Sim_outcome(st, dead) == [st |-> st, dead |-> dead]

\* The mover i strikes the hero j standing on its destination for 20.
Sim_attack(st, i, j) ==
    LET hit == [st EXCEPT !.heroes[j].life = st.heroes[j].life - 20]
    IN IF hit.heroes[j].life <= 0
       THEN Sim_outcome(Sim_respawn(hit, j), {j})
       ELSE Sim_outcome(hit, {})

\* The mover i steps into the mine at pos: a mine it does not own becomes
\* its own and costs it 20 life.
Sim_mine(st, i, pos) ==
    LET old == st.mines[pos]
        lost == IF old = NoOwner THEN st
                ELSE [st EXCEPT !.heroes[old].mine_count = st.heroes[old].mine_count - 1]
        got == [lost EXCEPT !.mines[pos] = i,
                            !.heroes[i].mine_count = lost.heroes[i].mine_count + 1,
                            !.heroes[i].life = lost.heroes[i].life - 20]
    IN IF old = i THEN Sim_outcome(st, {})
       ELSE IF got.heroes[i].life <= 0 THEN Sim_outcome(Sim_respawn(got, i), {i})
       ELSE Sim_outcome(got, {})

\* The mover i steps into a tavern: 2 gold for life 100, if it has the gold.
Sim_tavern(st, i) ==
    IF st.heroes[i].gold >= 2
    THEN [st EXCEPT !.heroes[i].gold = st.heroes[i].gold - 2,
                    !.heroes[i].life = 100]
    ELSE st

\* What the command of hero i does to the positions, lives and mines.
Sim_act(m, st, i, move) ==
    LET h == st.heroes[i]
        d == CommandDir(move)
        nx == h.x + d[1]
        ny == h.y + d[2]
        inside == -1 < nx /\ nx < m.size /\ -1 < ny /\ ny < m.size
        there == {j \in DOMAIN st.heroes :
                     j # i /\ st.heroes[j].x = nx /\ st.heroes[j].y = ny}
    IN IF d = <<0, 0>> \/ ~inside THEN Sim_outcome(st, {})
       ELSE IF there # {}
            THEN Sim_attack(st, i, CHOOSE j \in there : \A k \in there : j <= k)
       ELSE IF Map_getitem(m, nx, ny) = TILE_WALL THEN Sim_outcome(st, {})
       ELSE IF Map_getitem(m, nx, ny) = TILE_MINE
            THEN (IF <<nx, ny>> \in DOMAIN st.mines
                  THEN Sim_mine(st, i, <<nx, ny>>) ELSE Sim_outcome(st, {}))
       ELSE IF Map_getitem(m, nx, ny) = TILE_TAVERN
            THEN Sim_outcome(Sim_tavern(st, i), {})
       ELSE Sim_outcome([st EXCEPT !.heroes[i].x = nx, !.heroes[i].y = ny], {})

\* The passive drain of one life on every hero the turn did not kill (never
\* below 1), at the end of a round one gold per mine owned, and the turn.
Sim_upkeep(out) ==
    LET st == out.st
        roundEnds == (st.turn + 1) % 4 = 0
    IN [st EXCEPT
           !.heroes = [j \in DOMAIN st.heroes |->
               [st.heroes[j] EXCEPT
                   !.life = IF j \in out.dead \/ @ <= 1 THEN @ ELSE @ - 1,
                   !.gold = IF roundEnds THEN @ + st.heroes[j].mine_count ELSE @]],
           !.turn = st.turn + 1]

\* simulation.simulate(state, move): the hero whose turn it is acts.
simulation_simulate(m, state, move) ==
    Sim_upkeep(Sim_act(m, state, (state.turn % 4) + 1, move))

\* State.simulate(move) had it kept the command and not run the simulation.
State_simulate_recordOnly(m, state, move) == [state EXCEPT !.last_move = move]

\* State.simulate(move).
State_simulate(m, state, move) ==
    simulation_simulate(m, [state EXCEPT !.last_move = move], move)

(***************************************************************************)
(* vindinium/ai/minimax/functions.py.                                      *)
(***************************************************************************)
\* The dict MOVES in its insertion order (Stay is commented out of it).
MOVES ==
    << <<NORTH, <<0, -1>> >>, <<WEST, <<-1, 0>> >>,
       <<SOUTH, <<0, 1>> >>, <<EAST, <<1, 0>> >> >>

terminal(g, state) == state.turn >= g.max_turns * 4

\* The moves generate would keep without its test of the destination.
generate_moves_unchecked(m, state) == MOVES

\* The moves generate keeps: those whose destination is inside the grid.
generate_moves(m, state) ==
    LET hero == state.heroes[(state.turn % 4) + 1]
        inGrid(mv) ==
            LET x_ == hero.x + mv[2][1]
                y_ == hero.y + mv[2][2]
            IN -1 < x_ /\ x_ < m.size /\ -1 < y_ /\ y_ < m.size
    IN SelectSeq(MOVES, inGrid)

generate(m, state) ==
    LET moves == generate_moves(m, state)
    IN [k \in 1..Len(moves) |->
           State_simulate(m, State_clone(state), moves[k][1])]

\* int(life / 10): the tenths of the life with the rest cut off.
PyRound10_truncated(life) == life \div 10

\* Python 3 round(life / 10): a half goes to the even neighbour.
PyRound10(life) ==
    LET q == life \div 10
        r == life % 10
    IN IF r < 5 THEN q
       ELSE IF r > 5 THEN q + 1
       ELSE IF q % 2 = 0 THEN q ELSE q + 1

\* The ownership part of the value, summed over the mines at S.
RECURSIVE evaluate_ownership(_, _, _)
evaluate_ownership(mines, id, S) ==
    IF S = {} THEN 0
    ELSE LET pos == CHOOSE p \in S : TRUE
             mod == IF mines[pos] = id THEN 1 ELSE -1
         IN (IF mines[pos] = NoOwner THEN 0 ELSE mod * 1000)
                + evaluate_ownership(mines, id, S \ {pos})

\* The distance the loop ends with, after "distance or 0".
evaluate_distance(mines, id, hero) ==
    LET ds == {Abs(hero.x - pos[1]) + Abs(hero.y - pos[2]) :
                  pos \in {p \in DOMAIN mines : mines[p] # id}}
    IN IF ds = {} THEN 0 ELSE CHOOSE d \in ds : \A e \in ds : d <= e

evaluate(g, state) ==
    LET id == (g.turn % 4) + 1
        hero == state.heroes[id]
    IN evaluate_ownership(state.mines, id, DOMAIN state.mines)
           - evaluate_distance(state.mines, id, hero)
           + PyRound10(hero.life)

\* sort: reversed(states).
sort(sts) == [k \in 1..Len(sts) |-> sts[Len(sts) + 1 - k]]

(***************************************************************************)
(* vindinium/ai/minimax/minimax.py.  float('inf') is held as Infinity, a   *)
(* number above every value evaluate can give.  _minimax returns           *)
(* [value, state], state being <<>> for None and <<s>> for the State s.    *)
(***************************************************************************)
Infinity == 1000 * 1000

Max2(a, b) == IF a >= b THEN a ELSE b

\* "value == best_state": a number compared with None or with a State, which
\* defines no __eq__, is never equal to it.
PyEq_numberObject(value, obj) == FALSE

RECURSIVE Minimax_minimax(_, _, _, _, _, _, _, _)
RECURSIVE Minimax_loop(_, _, _, _, _, _, _, _, _, _, _)

\* The for loop of _minimax from the k-th of next_states on; coin is what
\* "random.random() < 0.3" gives.
Minimax_loop(m, g, next_states, k, depth, alpha, beta, color, coin, best_value, best_state) ==
    IF k > Len(next_states)
    THEN [value |-> best_value, state |-> best_state]
    ELSE LET next_state == next_states[k]
             sub == Minimax_minimax(m, g, next_state, depth - 1,
                                    -beta, -alpha, color + 1, coin)
             value == IF color % 4 = 0 \/ (color + 1) % 4 = 0
                      THEN -sub.value ELSE sub.value
             take == \/ value > best_value
                     \/ (PyEq_numberObject(value, best_state) /\ coin)
             best_value2 == IF take THEN value ELSE best_value
             best_state2 == IF take THEN <<next_state>> ELSE best_state
             alpha2 == Max2(alpha, value)
         IN IF alpha2 >= beta
            THEN [value |-> best_value2, state |-> best_state2]
            ELSE Minimax_loop(m, g, next_states, k + 1, depth, alpha2, beta,
                              color, coin, best_value2, best_state2)

Minimax_minimax(m, g, state, depth, alpha, beta, color, coin) ==
    LET mod == IF color % 4 = 0 THEN 1 ELSE -1
    IN IF depth = 0 \/ terminal(g, state)
       THEN [value |-> mod * evaluate(g, state), state |-> <<state>>]
       ELSE Minimax_loop(m, g, sort(generate(m, state)), 1, depth,
                         alpha, beta, color, coin, -Infinity, <<>>)

\* The while loop of find had it been a do-while: last_move of the state
\* is taken before it is looked at.
Minimax_chain_unguarded(state) == <<state.last_move>>

\* The while loop of find: the commands from state up its parent chain.
RECURSIVE Minimax_chain(_)
Minimax_chain(state) ==
    IF state.last_move = None THEN <<>>
    ELSE <<state.last_move>> \o Minimax_chain(state.parent[1])

\* find: [raised, result]; reading last_move of None raises AttributeError.
Minimax_find(m, g, max_depth, coin) ==
    LET top == Minimax_minimax(m, g, State_ofGame(g), max_depth,
                               -Infinity, Infinity, 0, coin)
    IN IF top.state = <<>>
       THEN [raised |-> "AttributeError", result |-> <<>>]
       ELSE [raised |-> None, result |-> Minimax_chain(top.state[1])]

(***************************************************************************)
(* vindinium/bots/minimax_bot.py: _do_move, as [raised, result].           *)
(***************************************************************************)
MinimaxBot_do_move(m, g, max_depth, coin) ==
    LET moves == Minimax_find(m, g, max_depth, coin)
    IN IF moves.raised # None THEN [raised |-> moves.raised, result |-> None]
       ELSE IF Len(moves.result) = 0
            THEN [raised |-> "IndexError", result |-> None]
       ELSE [raised |-> None, result |-> moves.result[1]]

(***************************************************************************)
(* vindinium/utils/functions.py.  What a function gives is held as         *)
(* [raised, result]: raised is None or the name of the exception.          *)
(***************************************************************************)
Return(v) == [raised |-> None, result |-> v]

Raise(e) == [raised |-> e, result |-> None]

dir_to_command(dx, dy) ==
    IF dx = -1 /\ dy = 0 THEN Return(WEST)
    ELSE IF dx = 1 /\ dy = 0 THEN Return(EAST)
    ELSE IF dx = 0 /\ dy = -1 THEN Return(NORTH)
    ELSE IF dx = 0 /\ dy = 1 THEN Return(SOUTH)
    ELSE IF dx = 0 /\ dy = 0 THEN Return(STAY)
    ELSE Raise("ValueError")

\* path_to_command had the two positions been taken the other way round.
path_to_command_reversed(x0, y0, x1, y1) == dir_to_command(x0 - x1, y0 - y1)

path_to_command(x0, y0, x1, y1) == dir_to_command(x1 - x0, y1 - y0)

\* sorted(objects, key=distance): the sort is stable.
order_by_distance(x, y, objects) ==
    LET key(i) == distance_manhattan(x, y, objects[i].x, objects[i].y)
        before(i) == {j \in 1..Len(objects) :
                         key(j) < key(i) \/ (key(j) = key(i) /\ j < i)}
    IN [r \in 1..Len(objects) |->
           objects[CHOOSE i \in 1..Len(objects) : Cardinality(before(i)) = r - 1]]

(***************************************************************************)
(* vindinium/bots: miner_bot.py, aggressive_bot.py, charming_mole.py.      *)
(* _go_to, _go_to_nearest_tavern and _random are the same in the three.    *)
(***************************************************************************)
Commands == {NORTH, SOUTH, EAST, WEST, STAY}

\* _go_to after "path = self.search.find(x, y, x_, y_)": None without a
\* path, else the command of its first step.
Bot_follow(hero, x_, y_, path) ==
    IF path.raised THEN Raise("IndexError")
    ELSE IF ~path.found THEN Return(None)
    ELSE IF Len(path.path) > 0
         THEN path_to_command(hero.x, hero.y, path.path[1][1], path.path[1][2])
    ELSE path_to_command(hero.x, hero.y, x_, y_)

Bot_go_to(m, hero, x_, y_) ==
    Bot_follow(hero, x_, y_, AStar_find(m, hero.x, hero.y, x_, y_))

\* The loop "for t in targets: command = _go_to(t); if command: return",
\* from the k-th target on, and the "return self._random()" after it;
\* random is what random.choice gives.
RECURSIVE Bot_firstCommand(_, _, _, _, _)
RECURSIVE Bot_nextCommand(_, _, _, _, _, _)
Bot_nextCommand(m, hero, targets, k, random, command) ==
    IF command.raised # None \/ command.result # None THEN command
    ELSE Bot_firstCommand(m, hero, targets, k + 1, random)

Bot_firstCommand(m, hero, targets, k, random) ==
    IF k > Len(targets) THEN Return(random)
    ELSE Bot_nextCommand(m, hero, targets, k, random,
                         Bot_go_to(m, hero, targets[k].x, targets[k].y))

Bot_go_to_nearest_tavern(m, g, hero, random) ==
    Bot_firstCommand(m, hero, order_by_distance(hero.x, hero.y, g.taverns),
                     1, random)

\* MinerBot._go_to_nearest_mine: the mines of the hero itself are skipped.
MinerBot_go_to_nearest_mine(m, g, hero, random) ==
    LET mines == order_by_distance(hero.x, hero.y, g.mines)
        other(mine) == mine.owner # hero.id
    IN Bot_firstCommand(m, hero, SelectSeq(mines, other), 1, random)

MinerBot_move(m, g, id, random) ==
    LET hero == g.heroes[id]
    IN IF hero.life < 50 /\ hero.gold > 2
       THEN Bot_go_to_nearest_tavern(m, g, hero, random)
       ELSE MinerBot_go_to_nearest_mine(m, g, hero, random)

\* AggressiveBot._get_best_target: the first of the other heroes that no
\* other hero beats in mines.
AggressiveBot_get_best_target(g, id) ==
    LET notSelf(h) == h.id # id
        others == SelectSeq(g.heroes, notSelf)
        best == CHOOSE k \in 1..Len(others) :
                    /\ \A j \in 1..Len(others) :
                          others[j].mine_count <= others[k].mine_count
                    /\ \A j \in 1..(k - 1) :
                          others[j].mine_count < others[k].mine_count
    IN others[best]

AggressiveBot_move(m, g, id, random) ==
    LET hero == g.heroes[id]
        target == AggressiveBot_get_best_target(g, id)
        distance == distance_manhattan(hero.x, hero.y, target.x, target.y)
        in_spawn == target.x = target.spawn_x /\ target.y = target.spawn_y
    IN IF hero.life <= 40 /\ hero.gold > 2
       THEN Bot_go_to_nearest_tavern(m, g, hero, random)
       ELSE IF distance < 5 /\ ~in_spawn
            THEN Bot_go_to(m, hero, target.x, target.y)
       ELSE IF hero.life <= 60 /\ hero.gold > 2
            THEN Bot_go_to_nearest_tavern(m, g, hero, random)
       ELSE Bot_go_to(m, hero, target.x, target.y)

\* CharmingMoleBot._go_to_nearest_mine: the mines of the hero and of the
\* friendly heroes are skipped.
CharmingMoleBot_go_to_nearest_mine(m, g, hero, friendly, random) ==
    LET mines == order_by_distance(hero.x, hero.y, g.mines)
        other(mine) == mine.owner # hero.id /\ mine.owner \notin friendly
    IN Bot_firstCommand(m, hero, SelectSeq(mines, other), 1, random)

CharmingMoleBot_get_position_after_move(hero, command) ==
    IF command = "North" THEN <<hero.x, hero.y - 1>>
    ELSE IF command = "South" THEN <<hero.x, hero.y + 1>>
    ELSE IF command = "West" THEN <<hero.x - 1, hero.y>>
    ELSE IF command = "East" THEN <<hero.x + 1, hero.y>>
    ELSE <<hero.x, hero.y>>

\* A _would_hit_friendly without the priority of ids: whoever would step
\* onto a friendly hero yields unless its life is critical.
CharmingMoleBot_would_hit_friendly_anyId(g, hero, friendly, command) ==
    LET next == CharmingMoleBot_get_position_after_move(hero, command)
    IN /\ hero.life >= 25
       /\ \E i \in 1..Len(g.heroes) :
             /\ g.heroes[i].id # hero.id
             /\ g.heroes[i].id \in friendly
             /\ g.heroes[i].x = next[1] /\ g.heroes[i].y = next[2]

\* _would_hit_friendly: the first friendly hero on the next cell decides.
CharmingMoleBot_would_hit_friendly(g, hero, friendly, command) ==
    LET next == CharmingMoleBot_get_position_after_move(hero, command)
        hit == {i \in 1..Len(g.heroes) :
                   /\ g.heroes[i].id # hero.id
                   /\ g.heroes[i].id \in friendly
                   /\ g.heroes[i].x = next[1] /\ g.heroes[i].y = next[2]}
        first == CHOOSE i \in hit : \A j \in hit : i <= j
    IN IF hit = {} THEN FALSE
       ELSE IF hero.life < 25 THEN FALSE
       ELSE hero.id < g.heroes[first].id

\* _do_move after the command is chosen: Stay instead of a move onto a
\* friendly hero.
CharmingMoleBot_yield(g, hero, friendly, command) ==
    IF command.raised # None THEN command
    ELSE IF CharmingMoleBot_would_hit_friendly(g, hero, friendly, command.result)
         THEN Return("Stay")
    ELSE command

CharmingMoleBot_do_move(m, g, id, friendly, random) ==
    CharmingMoleBot_yield(g, g.heroes[id], friendly,
        IF g.heroes[id].life < 50 /\ g.heroes[id].gold > 2
        THEN Bot_go_to_nearest_tavern(m, g, g.heroes[id], random)
        ELSE CharmingMoleBot_go_to_nearest_mine(m, g, g.heroes[id], friendly, random))

(***************************************************************************)
(* The boards explored.                                                    *)
(***************************************************************************)
\* A Map of the given size built from its rows: rows[y + 1][x + 1] is the
\* tile at (x, y), as Game.__processState fills it.
MapOfRows(rows) ==
    [size |-> Len(rows),
     board |-> [c \in Cells(Len(rows)) |-> rows[c[2] + 1][c[1] + 1]]]

\* The boards of size n whose non-Empty tiles are the cells of P.
BoardsWith(n, P) ==
    {[size |-> n,
      board |-> [c \in Cells(n) |-> IF c \in P THEN t[c] ELSE TILE_EMPTY]] :
        t \in [P -> Tiles \ {TILE_EMPTY}]}

GenericBoards ==
    UNION {UNION {BoardsWith(n, P) :
                     P \in {Q \in SUBSET Cells(n) : Cardinality(Q) <= MaxSpecial}} :
              n \in Sizes}

\* 4x4 boards with two walls and a spawn tile.
LiteralBoards ==
    {MapOfRows(<< <<1, 0, 0, 0>>,
                  <<0, 1, 0, 0>>,
                  <<0, 2, 0, 0>>,
                  <<0, 0, 0, 0>> >>),
     MapOfRows(<< <<0, 0, 0, 0>>,
                  <<1, 1, 0, 0>>,
                  <<0, 2, 0, 0>>,
                  <<0, 0, 0, 4>> >>)}

Boards == GenericBoards \cup LiteralBoards

Traversable(m) ==
    {c \in Cells(m.size) : Map_getitem(m, c[1], c[2]) \notin obstacle_tiles}

(***************************************************************************)
(* The pathfinder driven by its callers: a find from a cell a hero can     *)
(* stand on to any cell of the board, then the caller drops the result.    *)
(***************************************************************************)
InitAStar ==
    /\ map \in Boards
    /\ game = None
    /\ search = None
    /\ states = <<>> /\ heroDicts = <<>> /\ mineDicts = <<>>
    /\ pc = "idle"
    /\ args = <<>>
    /\ ret = None

Find(x0, y0, x1, y1) ==
    /\ pc = "idle"
    /\ <<x0, y0>> \in Traversable(map)
    /\ <<x1, y1>> \in Cells(map.size)
    /\ pc' = "find"
    /\ args' = [x0 |-> x0, y0 |-> y0, x1 |-> x1, y1 |-> y1]
    /\ ret' = AStar_find(map, x0, y0, x1, y1)
    /\ UNCHANGED <<map, game, search, heapVars>>

Drop ==
    /\ pc # "idle"
    /\ pc' = "idle"
    /\ args' = <<>>
    /\ ret' = None
    /\ UNCHANGED <<map, game, search, heapVars>>

NextAStar ==
    \/ \E x0, y0, x1, y1 \in Coords(map.size) : Find(x0, y0, x1, y1)
    \/ Drop

SpecAStar == InitAStar /\ [][NextAStar]_vars

(***************************************************************************)
(* The games explored by the search.  Hero i spawns in the i-th corner;    *)
(* the hero to move and the hero after it stand anywhere free, the other   *)
(* two on their spawns.  A 3x3 board has a tavern and one mine.            *)
(***************************************************************************)
\* Game.__processState: the board, the spawn positions laid over it last.
Game_map(size, walls, taverns, mines, spawns) ==
    [size |-> size,
     board |-> [c \in Cells(size) |->
                   IF c \in spawns THEN TILE_SPAWN
                   ELSE IF c \in walls THEN TILE_WALL
                   ELSE IF c \in taverns THEN TILE_TAVERN
                   ELSE IF c \in mines THEN TILE_MINE
                   ELSE TILE_EMPTY]]

Corner(n, i) ==
    CASE i = 1 -> <<0, 0>>
      [] i = 2 -> <<n - 1, 0>>
      [] i = 3 -> <<0, n - 1>>
      [] i = 4 -> <<n - 1, n - 1>>

SpawnCells(n) == {Corner(n, i) : i \in HeroIds}

TavernCells(n) == IF n >= 3 THEN {<<1, n - 1>>} ELSE {}

MineCells(n) == IF n >= 3 THEN {<<1, 1>>, <<1, 0>>} ELSE {}

WallSets(n) == IF n >= 3 THEN {{}, {<<0, 1>>}} ELSE {{}}

\* The cells of S as [x, y] records, in the order the loops of
\* __processState (for y, for x) meet them.
RECURSIVE RowMajor(_)
RowMajor(S) ==
    IF S = {} THEN <<>>
    ELSE LET c == CHOOSE d \in S : \A e \in S :
                      d[2] < e[2] \/ (d[2] = e[2] /\ d[1] <= e[1])
         IN <<[x |-> c[1], y |-> c[2]]>> \o RowMajor(S \ {c})

\* The hero whose turn it is, and the hero after it.
Mover(turn) == (turn % 4) + 1

Rival(turn) == (Mover(turn) % 4) + 1

\* A Game with at most one mine (mine is <<>> or <<pos>>).
GameOf(n, turn, walls, mine, owner, spos, rpos, slife, rlife) ==
    [turn |-> turn,
     max_turns |-> 2,
     heroes |-> [i \in HeroIds |->
         LET pos == IF i = Mover(turn) THEN spos
                    ELSE IF i = Rival(turn) THEN rpos
                    ELSE Corner(n, i)
         IN [id |-> i, x |-> pos[1], y |-> pos[2],
             life |-> IF i = Mover(turn) THEN slife
                      ELSE IF i = Rival(turn) THEN rlife ELSE 100,
             gold |-> 5,
             mine_count |-> IF mine # <<>> /\ owner = i THEN 1 ELSE 0,
             spawn_x |-> Corner(n, i)[1], spawn_y |-> Corner(n, i)[2]]],
     mines |-> [k \in 1..Len(mine) |->
                   [x |-> mine[k][1], y |-> mine[k][2], owner |-> owner]],
     taverns |-> RowMajor(TavernCells(n)),
     walls |-> walls]

\* The map of a Game of size n.
GameMapOf(n, g) ==
    Game_map(n, g.walls,
             {<<g.taverns[k].x, g.taverns[k].y>> : k \in 1..Len(g.taverns)},
             {<<g.mines[k].x, g.mines[k].y>> : k \in 1..Len(g.mines)},
             SpawnCells(n))

Turns == {0, 6}

Lives == {100, 15}

\* The cells the two moving heroes may stand on in a game at the given turn.
FreeCells(n, turn, walls, mine) ==
    {c \in Cells(n) :
        /\ c \notin TavernCells(n) \cup walls
        /\ \A k \in 1..Len(mine) : mine[k] # c
        /\ \A i \in HeroIds \ {Mover(turn), Rival(turn)} :
              n = 1 \/ c # Corner(n, i)}

GamesOfSize(n) ==
    {GameOf(n, q[1], q[2], q[3], q[4], q[5], q[6], q[7], q[8]) :
        q \in {r \in Turns \X WallSets(n)
                     \X ({<<>>} \cup {<<c>> : c \in MineCells(n)})
                     \X (0..4) \X Cells(n) \X Cells(n) \X Lives \X Lives :
                  /\ r[5] \in FreeCells(n, r[1], r[2], r[3])
                  /\ r[6] \in FreeCells(n, r[1], r[2], r[3])
                  /\ n = 1 \/ r[5] # r[6]
                  /\ r[3] = <<>> => (r[4] = NoOwner /\ n < 3)
                  /\ r[4] \in {NoOwner, Mover(r[1]), Rival(r[1])}}}

(***************************************************************************)
(* The search driven by its callers on one game: _minimax from the root,   *)
(* find, and MinimaxBot._do_move.  search is the Minimax object, made at   *)
(* _do_start (MinimaxBot asks for depth 8; depths up to MaxDepth are       *)
(* explored).                                                              *)
(***************************************************************************)
InitMinimax ==
    /\ \E n \in Sizes : \E g \in GamesOfSize(n) :
          /\ game = g
          /\ map = GameMapOf(n, g)
    /\ search \in {[max_depth |-> d] : d \in 0..MaxDepth}
    /\ states = <<>> /\ heroDicts = <<>> /\ mineDicts = <<>>
    /\ pc = "idle"
    /\ args = <<>>
    /\ ret = None

CallMinimax(coin) ==
    /\ pc = "idle"
    /\ pc' = "_minimax"
    /\ args' = [coin |-> coin]
    /\ ret' = Minimax_minimax(map, game, State_ofGame(game), search.max_depth,
                              -Infinity, Infinity, 0, coin)
    /\ UNCHANGED <<map, game, search, heapVars>>

CallFind(coin) ==
    /\ pc = "idle"
    /\ pc' = "find"
    /\ args' = [coin |-> coin]
    /\ ret' = Minimax_find(map, game, search.max_depth, coin)
    /\ UNCHANGED <<map, game, search, heapVars>>

CallDoMove(coin) ==
    /\ pc = "idle"
    /\ pc' = "_do_move"
    /\ args' = [coin |-> coin]
    /\ ret' = MinimaxBot_do_move(map, game, search.max_depth, coin)
    /\ UNCHANGED <<map, game, search, heapVars>>

NextMinimax ==
    \/ \E coin \in BOOLEAN : CallMinimax(coin)
    \/ \E coin \in BOOLEAN : CallFind(coin)
    \/ \E coin \in BOOLEAN : CallDoMove(coin)
    \/ Drop

SpecMinimax == InitMinimax /\ [][NextMinimax]_vars

(***************************************************************************)
(* The State objects of a search as they lie in memory.  states[s] is the  *)
(* State object s: [last_move, parent, turn, heroes, mines], parent being  *)
(* <<>> or <<p>> for the object p, heroes the list of the addresses of its *)
(* hero dicts in heroDicts, mines the address of its dict in mineDicts.    *)
(***************************************************************************)
\* What the State object s holds, read through its references.
StateView(s) ==
    [last_move |-> states[s].last_move,
     parent |-> <<>>,
     turn |-> states[s].turn,
     heroes |-> [i \in 1..Len(states[s].heroes) |->
                    heroDicts[states[s].heroes[i]]],
     mines |-> mineDicts[states[s].mines]]

\* The hero list of a new object had the dicts themselves been taken.
State_init_heroes_shared(src) == src.heroes

\* State.__init__ of a State: where the hero list of the new object points,
\* "[h.copy() for h in game.heroes]", the copies being put at the end.
State_init_heroes(src) ==
    [i \in 1..Len(src.heroes) |-> Len(heroDicts) + i]

\* Where mines of a new object points had the dict itself been taken.
State_init_mines_shared(src) == src.mines

\* State.__init__ of a State: where mines points, "game.mines.copy()".
State_init_mines(src) == Len(mineDicts) + 1

\* clone() of the object s, put at the end of the memory.
Clone(s) ==
    LET src == states[s]
    IN /\ states' = Append(states,
              [last_move |-> src.last_move, parent |-> <<s>>,
               turn |-> src.turn,
               heroes |-> State_init_heroes(src),
               mines |-> State_init_mines(src)])
       /\ heroDicts' = heroDicts \o
              [i \in 1..Len(src.heroes) |-> heroDicts[src.heroes[i]]]
       /\ mineDicts' = Append(mineDicts, mineDicts[src.mines])

\* simulate(move) on the object s: the dicts it points to are changed in
\* place.
Simulate(s, move) ==
    LET after == State_simulate(map, StateView(s), move)
        slot(a) == CHOOSE i \in 1..Len(states[s].heroes) :
                       states[s].heroes[i] = a
    IN /\ states' = [states EXCEPT ![s].last_move = after.last_move,
                                   ![s].turn = after.turn]
       /\ heroDicts' = [a \in 1..Len(heroDicts) |->
              IF \E i \in 1..Len(states[s].heroes) : states[s].heroes[i] = a
              THEN after.heroes[slot(a)] ELSE heroDicts[a]]
       /\ mineDicts' = [a \in 1..Len(mineDicts) |->
              IF a = states[s].mines THEN after.mines ELSE mineDicts[a]]

\* generate(minimax, game, state) is entered for the object s.
Generate(s) ==
    /\ pc = "idle"
    /\ Len(states) + Len(generate_moves(map, StateView(s))) <= MaxStates
    /\ pc' = "generate"
    /\ args' = [state |-> s, moves |-> generate_moves(map, StateView(s)),
                k |-> 1, result |-> <<>>]
    /\ ret' = None
    /\ UNCHANGED <<map, game, search, heapVars>>

\* The loop of generate: "s = state.clone()" for the next move kept.
GenerateClone ==
    /\ pc = "generate"
    /\ args.k <= Len(args.moves)
    /\ Clone(args.state)
    /\ pc' = "cloned"
    /\ UNCHANGED <<map, game, search, args, ret>>

\* The loop of generate: "s.simulate(move)" and "result.append(s)".
GenerateSimulate ==
    /\ pc = "cloned"
    /\ Simulate(Len(states), args.moves[args.k][1])
    /\ pc' = "generate"
    /\ args' = [args EXCEPT !.k = @ + 1,
                            !.result = Append(@, Len(states))]
    /\ UNCHANGED <<map, game, search, ret>>

\* generate returns result.
GenerateReturn ==
    /\ pc = "generate"
    /\ args.k > Len(args.moves)
    /\ pc' = "generated"
    /\ ret' = args.result
    /\ UNCHANGED <<map, game, search, args, heapVars>>

\* The caller is done with what generate returned.
GenerateDone ==
    /\ pc = "generated"
    /\ pc' = "idle"
    /\ args' = <<>>
    /\ ret' = None
    /\ UNCHANGED <<map, game, search, heapVars>>

\* find has made State(self.game), the root, of the game.
InitState ==
    /\ \E n \in Sizes : \E g \in GamesOfSize(n) :
          /\ game = g
          /\ map = GameMapOf(n, g)
    /\ search = None
    /\ states = <<[last_move |-> None, parent |-> <<>>, turn |-> game.turn,
                   heroes |-> [i \in 1..Len(game.heroes) |-> i],
                   mines |-> 1]>>
    /\ heroDicts = [i \in 1..Len(game.heroes) |-> State_heroDict(game.heroes[i])]
    /\ mineDicts = <<State_mineDict(game.mines)>>
    /\ pc = "idle"
    /\ args = <<>>
    /\ ret = None

NextState ==
    \/ \E s \in 1..Len(states) : Generate(s)
    \/ GenerateClone
    \/ GenerateSimulate
    \/ GenerateReturn
    \/ GenerateDone

SpecState == InitState /\ [][NextState]_vars

(***************************************************************************)
(* The bots asked for a move in one game: the bot plays the hero whose     *)
(* turn it is.  search holds what the bot worked out at the start of the   *)
(* game: the ids of the heroes CharmingMoleBot takes as friendly (those    *)
(* that bear its name).                                                    *)
(***************************************************************************)
InitBots ==
    /\ \E n \in Sizes \ {1} : \E g \in GamesOfSize(n) :
          /\ game = g
          /\ map = GameMapOf(n, g)
    /\ search \in {[friendly |-> F] : F \in {{}, {Rival(game.turn)}}}
    /\ states = <<>> /\ heroDicts = <<>> /\ mineDicts = <<>>
    /\ pc = "idle"
    /\ args = <<>>
    /\ ret = None

MinerMove(random) ==
    /\ pc = "idle"
    /\ pc' = "MinerBot"
    /\ args' = [random |-> random]
    /\ ret' = MinerBot_move(map, game, Mover(game.turn), random)
    /\ UNCHANGED <<map, game, search, heapVars>>

AggressiveMove(random) ==
    /\ pc = "idle"
    /\ pc' = "AggressiveBot"
    /\ args' = [random |-> random]
    /\ ret' = AggressiveBot_move(map, game, Mover(game.turn), random)
    /\ UNCHANGED <<map, game, search, heapVars>>

CharmingMoleMove(random) ==
    /\ pc = "idle"
    /\ pc' = "CharmingMoleBot"
    /\ args' = [random |-> random]
    /\ ret' = CharmingMoleBot_do_move(map, game, Mover(game.turn),
                                      search.friendly, random)
    /\ UNCHANGED <<map, game, search, heapVars>>

NextBots ==
    \/ \E random \in Commands : MinerMove(random)
    \/ \E random \in Commands : AggressiveMove(random)
    \/ \E random \in Commands : CharmingMoleMove(random)
    \/ Drop

SpecBots == InitBots /\ [][NextBots]_vars

(***************************************************************************)
(* evaluate applied to the root State of games with up to three mines, any *)
(* of them owned by any hero or by nobody, the searching hero standing on  *)
(* any cell that is free.                                                  *)
(***************************************************************************)
EvalSize == 4

EvalMineCells == <<<<1, 0>>, <<2, 1>>, <<1, 3>>>>

EvalLives == {5, 25, 46, 99, 100}

\* A Game of the family: owners maps the indices of the cells of
\* EvalMineCells that hold a mine to the owner of the mine.
EvalGameOf(turn, pos, life, owners) ==
    LET n == EvalSize
        at == SelectSeq([k \in 1..Len(EvalMineCells) |-> k],
                        LAMBDA k : k \in DOMAIN owners)
        kept == [j \in 1..Len(at) |->
                    [x |-> EvalMineCells[at[j]][1],
                     y |-> EvalMineCells[at[j]][2],
                     owner |-> owners[at[j]]]]
    IN [turn |-> turn,
        max_turns |-> 2,
        heroes |-> [i \in HeroIds |->
            LET c == IF i = Mover(turn) THEN pos ELSE Corner(n, i)
            IN [id |-> i, x |-> c[1], y |-> c[2],
                life |-> IF i = Mover(turn) THEN life ELSE 100,
                gold |-> 5,
                mine_count |-> Cardinality({k \in DOMAIN owners :
                                               owners[k] = i}),
                spawn_x |-> Corner(n, i)[1], spawn_y |-> Corner(n, i)[2]]],
        mines |-> kept,
        taverns |-> <<>>,
        walls |-> {}]

EvalOwners ==
    UNION {[S -> {NoOwner} \cup HeroIds] :
              S \in SUBSET (1..Len(EvalMineCells))}

EvalGames ==
    {EvalGameOf(q[1], q[2], q[3], q[4]) :
        q \in {r \in (0..4) \X Cells(EvalSize) \X EvalLives \X EvalOwners :
                  /\ \A k \in 1..Len(EvalMineCells) : r[2] # EvalMineCells[k]
                  /\ \A i \in HeroIds \ {Mover(r[1])} :
                        r[2] # Corner(EvalSize, i)}}

InitEvaluate ==
    /\ game \in EvalGames
    /\ map = GameMapOf(EvalSize, game)
    /\ search = None
    /\ states = <<>>
    /\ heroDicts = <<>>
    /\ mineDicts = <<>>
    /\ pc = "idle"
    /\ args = <<>>
    /\ ret = None

\* _minimax reaches a leaf: "minimax.evaluate(game, state)" of the State.
Evaluate ==
    /\ pc = "idle"
    /\ pc' = "evaluate"
    /\ args' = [state |-> State_ofGame(game)]
    /\ ret' = evaluate(game, State_ofGame(game))
    /\ UNCHANGED <<map, game, search, heapVars>>

NextEvaluate ==
    \/ Evaluate
    \/ Drop

SpecEvaluate == InitEvaluate /\ [][NextEvaluate]_vars

(***************************************************************************)
(* Commands simulated one after another on a State, from the root State of *)
(* a 3x3 game on: state.simulate(move) up to MaxPlies times, the heroes    *)
(* taking their turns.  The lives of the two heroes that can stand next to *)
(* one another lie on both sides of what a strike takes.                   *)
(***************************************************************************)
MaxPlies == 3

SimLives == {100, 21, 20}

SimMine == << <<1, 1>> >>

SimGames ==
    {GameOf(3, 0, {}, SimMine, q[1], q[2], q[3], q[4], q[5]) :
        q \in {r \in (0..4) \X Cells(3) \X Cells(3) \X SimLives \X SimLives :
                  /\ r[2] \in FreeCells(3, 0, {}, SimMine)
                  /\ r[3] \in FreeCells(3, 0, {}, SimMine)
                  /\ r[2] # r[3]}}

\* State(self.game): no command has been simulated on it yet.
InitSimulate ==
    /\ game \in SimGames
    /\ map = GameMapOf(3, game)
    /\ search = None
    /\ states = <<>>
    /\ heroDicts = <<>>
    /\ mineDicts = <<>>
    /\ pc = "idle"
    /\ args = [state |-> State_ofGame(game), plies |-> 0]
    /\ ret = None

\* state.simulate(move): args.state is the State before the call, ret the
\* State after it.
SimulateFirst(move) ==
    /\ pc = "idle"
    /\ pc' = "simulate"
    /\ args' = [state |-> args.state, move |-> move, plies |-> 1]
    /\ ret' = State_simulate(map, args.state, move)
    /\ UNCHANGED <<map, game, search, heapVars>>

\* state.simulate(move) once more, on the State the last call left.
SimulateNext(move) ==
    /\ pc = "simulate"
    /\ args.plies < MaxPlies
    /\ args' = [state |-> ret, move |-> move, plies |-> args.plies + 1]
    /\ ret' = State_simulate(map, ret, move)
    /\ UNCHANGED <<map, game, search, heapVars, pc>>

NextSimulate ==
    \/ \E move \in Commands : SimulateFirst(move)
    \/ \E move \in Commands : SimulateNext(move)

SpecSimulate == InitSimulate /\ [][NextSimulate]_vars

(***************************************************************************)
(* The pathfinder and the map on open ground: the boards of size 1 to 5    *)
(* with no tile but Empty, and the 5x5 board whose one tile that is not    *)
(* Empty is the Mine at (4, 4).                                            *)
(***************************************************************************)
OpenSizes == 1..5

OpenBoards == UNION {BoardsWith(n, {}) : n \in OpenSizes}

MineCornerBoard ==
    MapOfRows(<< <<0, 0, 0, 0, 0>>,
                 <<0, 0, 0, 0, 0>>,
                 <<0, 0, 0, 0, 0>>,
                 <<0, 0, 0, 0, 0>>,
                 <<0, 0, 0, 0, 4>> >>)

InitOpen ==
    /\ map \in OpenBoards \cup {MineCornerBoard}
    /\ game = None
    /\ search = None
    /\ states = <<>> /\ heroDicts = <<>> /\ mineDicts = <<>>
    /\ pc = "idle"
    /\ args = <<>>
    /\ ret = None

\* A read of the map, "self.map[x, y]", at any pair of integers up to one
\* beyond what an index counted from the end can reach.
GetItem(x, y) ==
    /\ pc = "idle"
    /\ pc' = "__getitem__"
    /\ args' = [x |-> x, y |-> y]
    /\ ret' = IF Map_getitem_raises(map, x, y) THEN Raise("IndexError")
              ELSE Return(Map_getitem(map, x, y))
    /\ UNCHANGED <<map, game, search, heapVars>>

NextOpen ==
    \/ \E x0, y0, x1, y1 \in Coords(map.size) : Find(x0, y0, x1, y1)
    \/ \E x, y \in (-(map.size + 1))..map.size : GetItem(x, y)
    \/ Drop

SpecOpen == InitOpen /\ [][NextOpen]_vars

(***************************************************************************)
(* One AStar instance asked again and again.  search is the instance as    *)
(* __init__ made it; a call gives [self, map, ret]: the instance and the   *)
(* Map as the call leaves them, and what it returns.                       *)
(***************************************************************************)
AStar_init(m) ==
    [cost_avoid |-> cost_avoid, cost_move |-> cost_move,
     obstacle_tiles |-> obstacle_tiles, avoid_tiles |-> avoid_tiles]

\* A find that keeps its result on the instance and gives it again.
AStar_call_cached(self, m, x0, y0, x1, y1) ==
    LET ret_ == IF "result" \in DOMAIN self THEN self.result
                ELSE AStar_find(m, x0, y0, x1, y1)
    IN [self |-> [cost_avoid |-> self.cost_avoid, cost_move |-> self.cost_move,
                  obstacle_tiles |-> self.obstacle_tiles,
                  avoid_tiles |-> self.avoid_tiles, result |-> ret_],
        map |-> m,
        ret |-> ret_]

\* AStar.find as a call on the instance: it assigns no attribute of self
\* and no tile of the Map; queue, visited and state are locals of the call.
AStar_call(self, m, x0, y0, x1, y1) ==
    [self |-> self, map |-> m, ret |-> AStar_find(m, x0, y0, x1, y1)]

NoFind == [x0 |-> 0, y0 |-> 0, x1 |-> 0, y1 |-> 0]

NoPath == [found |-> FALSE, path |-> <<>>, pops |-> 0, raised |-> FALSE]

InitAgain ==
    /\ map \in LiteralBoards \cup BoardsWith(3, {<<1, 1>>})
    /\ game = None
    /\ search = AStar_init(map)
    /\ states = <<>> /\ heroDicts = <<>> /\ mineDicts = <<>>
    /\ pc = "idle"
    /\ args = NoFind
    /\ ret = NoPath

\* A find, whatever was asked before; out is what the call gives.
FindAgainGives(x0, y0, x1, y1, out) ==
    /\ pc' = "find"
    /\ args' = [x0 |-> x0, y0 |-> y0, x1 |-> x1, y1 |-> y1]
    /\ search' = out.self
    /\ map' = out.map
    /\ ret' = out.ret
    /\ UNCHANGED <<game, heapVars>>

FindAgain(x0, y0, x1, y1) ==
    /\ <<x0, y0>> \in Traversable(map)
    /\ <<x1, y1>> \in Cells(map.size)
    /\ FindAgainGives(x0, y0, x1, y1, AStar_call(search, map, x0, y0, x1, y1))

NextAgain == \E x0, y0, x1, y1 \in Coords(map.size) : FindAgain(x0, y0, x1, y1)

SpecAgain == InitAgain /\ [][NextAgain]_vars

(***************************************************************************)
(* The Miner on the 5x5 board with the Mine at (4, 4): the one hero starts *)
(* at (0, 0), no tavern, no other hero.  Each round the bot decides on a   *)
(* command from the game as it stands, the command is played, and the game *)
(* is brought up to date with what it did; the loop of Client.run goes on  *)
(* until the game is finished, here after MaxRounds rounds.                *)
(***************************************************************************)
MaxRounds == 12

MinerGame ==
    [turn |-> 0,
     max_turns |-> MaxRounds,
     heroes |-> <<[id |-> 1, x |-> 0, y |-> 0, life |-> 100, gold |-> 0,
                   mine_count |-> 0, spawn_x |-> 0, spawn_y |-> 0]>>,
     mines |-> <<[x |-> 4, y |-> 4, owner |-> NoOwner]>>,
     taverns |-> <<>>,
     walls |-> {}]

InitMiner ==
    /\ game = MinerGame
    /\ map = MineCornerBoard
    /\ search = [friendly |-> {}]
    /\ states = <<>> /\ heroDicts = <<>> /\ mineDicts = <<>>
    /\ pc = "idle"
    /\ args = [random |-> None]
    /\ ret = Return(None)

\* Game.update with the state in which the command of the hero has been
\* played: the heroes and the owners of the mines are taken from it, the
\* turn is the next turn of the hero.
Game_update(g, after) ==
    [g EXCEPT
        !.turn = g.turn + 4,
        !.heroes = [i \in 1..Len(g.heroes) |->
            [g.heroes[i] EXCEPT !.x = after.heroes[i].x,
                                !.y = after.heroes[i].y,
                                !.life = after.heroes[i].life,
                                !.gold = after.heroes[i].gold,
                                !.mine_count = after.heroes[i].mine_count]],
        !.mines = [k \in 1..Len(g.mines) |->
            [g.mines[k] EXCEPT
                !.owner = after.mines[<<g.mines[k].x, g.mines[k].y>>]]]]

\* The loop of Client.run: the bot is asked for its move while the game is
\* not finished.
MinerTurn(random) ==
    /\ game.turn < 4 * game.max_turns
    /\ MinerMove(random)

\* The loop of Client.run: the command is sent, played by the rules of the
\* game, and the state that comes back brings the game up to date.
PlayTurn ==
    /\ pc = "MinerBot"
    /\ ret.raised = None
    /\ ret.result \in Commands
    /\ game' = Game_update(game,
                   simulation_simulate(map, State_ofGame(game), ret.result))
    /\ pc' = "idle"
    /\ args' = [random |-> None]
    /\ ret' = Return(None)
    /\ UNCHANGED <<map, search, heapVars>>

NextMiner ==
    \/ \E random \in Commands : MinerTurn(random)
    \/ PlayTurn

\* A turn of the loop as pc shows it: a step of NextMiner is possible exactly
\* when one of these is, and every step of NextMiner is one.
LoopRuns ==
    \/ /\ pc = "idle"
       /\ game.turn < 4 * game.max_turns
       /\ pc' = "MinerBot"
    \/ /\ pc = "MinerBot"
       /\ ret.raised = None
       /\ ret.result \in Commands
       /\ pc' = "idle"

\* Client.run does not pause: while the game is not finished the bot is
\* asked for its move, and the move it gives is played.
SpecMiner == InitMiner /\ [][NextMiner]_vars /\ WF_pc(LoopRuns)

(***************************************************************************)
(* vindinium/models/game.py on the states of the server.  A state is       *)
(* [game |-> [turn, finished, board |-> [size, tiles], heroes], hero];     *)
(* tiles is the string of the board held as the sequence of its            *)
(* characters (two for each tile, the rows one after the other).  The      *)
(* server gives a position as pos.x = row, pos.y = column.  An object      *)
(* bears in obj the ordinal of its creation (its identity); the Game       *)
(* holds in map the Map object, whose tiles are in the variable map.       *)
(***************************************************************************)
Digits == <<"0", "1", "2", "3", "4", "5", "6", "7", "8", "9">>

\* str(i) and int(char) for one digit.
PyStr(i) == Digits[i + 1]

PyInt(char) == CHOOSE i \in 0..9 : Digits[i + 1] = char

\* tiles[i : i + 2] for i = 2 * (y * size + x): the tile of (x, y).
TileAt(board, x, y) ==
    LET i == 2 * (y * board.size + x)
    IN <<board.tiles[i + 1], board.tiles[i + 2]>>

\* Hero.__init__, for the object created as number obj.
Hero_init(hero, obj) ==
    [obj |-> obj, id |-> hero.id, name |-> hero.name,
     crashed |-> hero.crashed, mine_count |-> hero.mineCount,
     gold |-> hero.gold, life |-> hero.life, last_dir |-> hero.lastDir,
     x |-> hero.pos.y, y |-> hero.pos.x,
     spawn_x |-> hero.spawnPos.y, spawn_y |-> hero.spawnPos.x]

\* Game.__processState: the tiles of the Map it fills.
Game_processState_map(state) ==
    LET board == state.game.board
        heroes == state.game.heroes
        spawns == {<<heroes[i].spawnPos.y, heroes[i].spawnPos.x>> :
                      i \in 1..Len(heroes)}
    IN [size |-> board.size,
        board |-> [c \in Cells(board.size) |->
            LET tile == TileAt(board, c[1], c[2])
            IN IF c \in spawns THEN TILE_SPAWN
               ELSE IF tile = <<"#", "#">> THEN TILE_WALL
               ELSE IF tile = <<"[", "]">> THEN TILE_TAVERN
               ELSE IF tile[1] = "$" THEN TILE_MINE
               ELSE TILE_EMPTY]]

\* Game.__init__ and __processState: the Map is created first, then the
\* Mine and Tavern objects as the loops (for y, for x) meet them, then the
\* Hero objects.  A new Mine has no owner, whatever the board shows.
Game_init(state) ==
    LET board == state.game.board
        isMine(c) == TileAt(board, c.x, c.y)[1] = "$"
        isTavern(c) == TileAt(board, c.x, c.y) = <<"[", "]">>
        found == RowMajor({c \in Cells(board.size) :
                     \/ TileAt(board, c[1], c[2])[1] = "$"
                     \/ TileAt(board, c[1], c[2]) = <<"[", "]">>})
        made == [k \in 1..Len(found) |->
                    [obj |-> k + 1, x |-> found[k].x, y |-> found[k].y]]
        mines == SelectSeq(made, isMine)
    IN [id |-> state.game.id,
        max_turns |-> state.game.maxTurns,
        turn |-> state.game.turn,
        map |-> 1,
        heroes |-> [i \in 1..Len(state.game.heroes) |->
                       Hero_init(state.game.heroes[i], Len(found) + 1 + i)],
        mines |-> [k \in 1..Len(mines) |->
                      [obj |-> mines[k].obj, x |-> mines[k].x,
                       y |-> mines[k].y, owner |-> NoOwner]],
        taverns |-> SelectSeq(made, isTavern)]

\* zip(self.heroes, heroes): the pairs up to the shorter of the two.
PyZipLen(a, b) == IF Len(a) <= Len(b) THEN Len(a) ELSE Len(b)

\* Game.update without its loop over the mines (lines 75-77).
Game_update_state_noMines(g, state) == [g EXCEPT !.turn = state.game.turn]

\* Game.update(state): the objects are kept and their fields are set.
Game_update_state(g, state) ==
    LET size == state.game.board.size
        tiles == state.game.board.tiles
        heroes == state.game.heroes
        char(mine) == tiles[mine.x * 2 + mine.y * 2 * size + 1 + 1]
    IN [g EXCEPT
        !.turn = state.game.turn,
        !.heroes = [i \in 1..Len(g.heroes) |->
            IF i > PyZipLen(g.heroes, heroes) THEN g.heroes[i]
            ELSE [g.heroes[i] EXCEPT
                     !.crashed = heroes[i].crashed,
                     !.mine_count = heroes[i].mineCount,
                     !.gold = heroes[i].gold,
                     !.life = heroes[i].life,
                     !.last_dir = heroes[i].lastDir,
                     !.x = heroes[i].pos.y,
                     !.y = heroes[i].pos.x]],
        !.mines = [k \in 1..Len(g.mines) |->
            [g.mines[k] EXCEPT
                !.owner = IF char(g.mines[k]) = "-" THEN NoOwner
                          ELSE PyInt(char(g.mines[k]))]]]

(***************************************************************************)
(* One game as the bot follows it: BaseBot.start makes the Game of the     *)
(* first state, and every BaseBot.move brings it up to date with the state *)
(* the server sent.  The board is 3x3: the spawns in the corners, a mine   *)
(* at (1, 0) and at (1, 2), a tavern at (1, 1) and a wall at (2, 1).  The  *)
(* states of the server are those of a game on this board: heroes 1 and 3  *)
(* on their spawn or at (0, 1), the mines owned by hero 1, hero 3 or       *)
(* nobody.                                                                 *)
(***************************************************************************)
MaxUpdates == 3

UpdateBoard ==
    << <<" ", "$", " ">>,
       <<" ", "[", "#">>,
       <<" ", "$", " ">> >>

UpdateSpawns == << <<0, 0>>, <<2, 0>>, <<0, 2>>, <<2, 2>> >>

UpdateMines == << <<1, 0>>, <<1, 2>> >>

\* A situation of the game: the turn, where the heroes stand (pos[i] is
\* the cell of hero i), the life of hero 1, whether hero 4 has crashed and
\* who owns the mines.
Situations(turn) ==
    {w \in {[turn |-> turn,
             pos |-> <<p1, UpdateSpawns[2], p3, UpdateSpawns[4]>>,
             life |-> l, crashed |-> c, owner |-> o] :
                p1 \in {UpdateSpawns[1], <<0, 1>>},
                p3 \in {UpdateSpawns[3], <<0, 1>>},
                l \in {100, 37},
                c \in BOOLEAN,
                o \in [1..Len(UpdateMines) -> {NoOwner, 1, 3}]} :
        w.pos[1] # w.pos[3]}

\* The tile of the cell (x, y) as the server draws it.
ServerTile(w, x, y) ==
    IF \E i \in 1..Len(w.pos) : w.pos[i] = <<x, y>>
    THEN <<"@", PyStr(CHOOSE i \in 1..Len(w.pos) : w.pos[i] = <<x, y>>)>>
    ELSE IF UpdateBoard[y + 1][x + 1] = "$"
    THEN LET k == CHOOSE j \in 1..Len(UpdateMines) : UpdateMines[j] = <<x, y>>
         IN <<"$", IF w.owner[k] = NoOwner THEN "-" ELSE PyStr(w.owner[k])>>
    ELSE IF UpdateBoard[y + 1][x + 1] = "[" THEN <<"[", "]">>
    ELSE IF UpdateBoard[y + 1][x + 1] = "#" THEN <<"#", "#">>
    ELSE <<" ", " ">>

\* The state the server sends in the situation w.
ServerState(w) ==
    LET size == Len(UpdateBoard)
        owned(i) == Cardinality({k \in 1..Len(UpdateMines) : w.owner[k] = i})
    IN [hero |-> [id |-> 1],
        game |-> [
          id |-> "g",
          turn |-> w.turn,
          maxTurns |-> 4 * MaxUpdates,
          finished |-> w.turn >= 4 * MaxUpdates,
          board |-> [
            size |-> size,
            tiles |-> [n \in 1..(2 * size * size) |->
               ServerTile(w, ((n - 1) \div 2) % size,
                             ((n - 1) \div 2) \div size)[((n - 1) % 2) + 1]]],
          heroes |-> [i \in 1..Len(UpdateSpawns) |->
              [id |-> i,
               name |-> IF i = 4 THEN "other" ELSE "mole",
               crashed |-> (i = 4 /\ w.crashed),
               mineCount |-> owned(i),
               gold |-> (w.turn \div 4) + 10 * owned(i),
               life |-> IF i = 1 THEN w.life ELSE 100,
               lastDir |-> IF w.pos[i] = UpdateSpawns[i] THEN None ELSE "South",
               pos |-> [x |-> w.pos[i][2], y |-> w.pos[i][1]],
               spawnPos |-> [x |-> UpdateSpawns[i][2],
                             y |-> UpdateSpawns[i][1]]]]]]

\* The first state of a game: everybody on the spawn, nothing owned.
FirstSituation ==
    [turn |-> 0, pos |-> UpdateSpawns, life |-> 100, crashed |-> FALSE,
     owner |-> [k \in 1..Len(UpdateMines) |-> NoOwner]]

InitUpdate ==
    /\ game = Game_init(ServerState(FirstSituation))
    /\ map = Game_processState_map(ServerState(FirstSituation))
    /\ search = [friendly |-> {}]
    /\ states = <<>> /\ heroDicts = <<>> /\ mineDicts = <<>>
    /\ pc = "start"
    /\ args = [state |-> ServerState(FirstSituation)]
    /\ ret = Return(None)

\* BaseBot.move up to its call of _do_move: "self.game.update(state)".
Update(state) ==
    /\ game.turn < 4 * MaxUpdates
    /\ pc' = "update"
    /\ args' = [state |-> state]
    /\ game' = Game_update_state(game, state)
    /\ ret' = Return(None)
    /\ UNCHANGED <<map, search, heapVars>>

\* The state of the first move is the one the game started with; the later
\* ones are of the next turn of the hero.
NextUpdate ==
    \/ /\ pc = "start"
       /\ Update(args.state)
    \/ /\ pc = "update"
       /\ \E w \in Situations(game.turn + 4) : Update(ServerState(w))

SpecUpdate == InitUpdate /\ [][NextUpdate]_vars

(***************************************************************************)
(* vindinium/client.py: Client.run(bot) with the bots of vindinium/bots.   *)
(* game is the Client ([session, turn]: session is None, "open" or         *)
(* "closed"), search is the bot ([class, id, game, search]: what start has *)
(* set on it), args.calls is the sequence of the calls run has made on the *)
(* bot and on the session ("start", "move", "end", "post", "close"), ret   *)
(* is what run is about to return or the exception on its way out, and pc  *)
(* is the place run has reached.                                           *)
(***************************************************************************)
MaxMoves == 3

BotClasses ==
    {"RawBot", "BaseBot", "RandomBot", "MinerBot", "AggressiveBot",
     "MinimaxBot", "CharmingMoleBot"}

\* The classes whose start is "def start(self)": bot.start(state) raises
\* TypeError before the body runs.
StartTakesNoState == {"MinerBot", "AggressiveBot"}

\* The classes whose move is "def move(self)".
MoveTakesNoState == {"RandomBot", "MinerBot", "AggressiveBot"}

\* The classes that inherit start and move from BaseBot and define
\* _do_start; what _do_start puts in self.search.
SearchOf(class) ==
    CASE class = "MinimaxBot" -> "Minimax"
      [] class = "CharmingMoleBot" -> "AStar"
      [] OTHER -> None

\* bot.start(state): [raised, bot].  RawBot.start sets id and state,
\* BaseBot.start also game and hero, then _do_start runs.
Bot_start(bot) ==
    IF bot.class \in StartTakesNoState
    THEN [raised |-> "TypeError", bot |-> bot]
    ELSE IF bot.class \in {"RawBot", "RandomBot"}
    THEN [raised |-> None, bot |-> [bot EXCEPT !.id = "id"]]
    ELSE [raised |-> None,
          bot |-> [bot EXCEPT !.id = "id", !.game = "Game",
                              !.search = SearchOf(bot.class)]]

\* bot.move(state): the exception of the call itself, if any.
Bot_move_raised(bot) ==
    IF bot.class \in MoveTakesNoState THEN "TypeError" ELSE None

InitClient ==
    /\ map = None
    /\ game = [session |-> None, turn |-> 0]
    /\ search \in {[class |-> c, id |-> None, game |-> None, search |-> None] :
                      c \in BotClasses}
    /\ states = <<>> /\ heroDicts = <<>> /\ mineDicts = <<>>
    /\ pc = "run"
    /\ args = [calls |-> <<>>]
    /\ ret = Return(None)

\* "state = self._connect()": the session is created, then the server
\* answers 200 or not (IOError).
Connect(ok) ==
    /\ pc = "run"
    /\ game' = [game EXCEPT !.session = "open"]
    /\ args' = [calls |-> Append(args.calls, "post")]
    /\ pc' = IF ok THEN "start" ELSE "finally"
    /\ ret' = IF ok THEN ret ELSE Raise("IOError")
    /\ UNCHANGED <<map, search, heapVars>>

\* "bot.start(state)"; fails: the body of start raises.
Start(fails) ==
    /\ pc = "start"
    /\ args' = [calls |-> Append(args.calls, "start")]
    /\ search' = Bot_start(search).bot
    /\ IF Bot_start(search).raised # None
       THEN pc' = "finally" /\ ret' = Raise(Bot_start(search).raised)
       ELSE IF fails /\ search.class \notin {"RawBot", "RandomBot"}
       THEN pc' = "finally" /\ ret' = Raise("Exception")
       ELSE pc' = "move" /\ ret' = ret
    /\ UNCHANGED <<map, game, heapVars>>

\* "turn += 1" and "action = bot.move(state)"; fails: _do_move raises.
Move(fails) ==
    /\ pc = "move"
    /\ game' = [game EXCEPT !.turn = game.turn + 1]
    /\ args' = [calls |-> Append(args.calls, "move")]
    /\ IF Bot_move_raised(search) # None
       THEN pc' = "finally" /\ ret' = Raise(Bot_move_raised(search))
       ELSE IF fails /\ search.class \in {"MinimaxBot", "CharmingMoleBot"}
       THEN pc' = "finally" /\ ret' = Raise("Exception")
       ELSE pc' = "send" /\ ret' = ret
    /\ UNCHANGED <<map, search, heapVars>>

\* "state = self._send_move(play_url, action)" and the test of the loop:
\* the server answers with a finished game, with one that goes on, or not
\* with 200 (IOError).  A game is finished after MaxMoves moves.
SendMove(answer) ==
    /\ pc = "send"
    /\ answer = "more" => game.turn < MaxMoves
    /\ args' = [calls |-> Append(args.calls, "post")]
    /\ pc' = IF answer = "more" THEN "move" ELSE "finally"
    /\ ret' = CASE answer = "error" -> Raise("IOError")
                [] answer = "finished" -> Return("viewUrl")
                [] OTHER -> ret
    /\ UNCHANGED <<map, game, search, heapVars>>

\* "bot.end()" had it been the last statement of the try block and not of
\* finally: an exception on its way out passes it by.
End_afterTry ==
    /\ pc = "finally"
    /\ args' = IF ret.raised = None
               THEN [calls |-> Append(args.calls, "end")] ELSE args
    /\ pc' = "disconnect"
    /\ UNCHANGED <<map, game, search, heapVars, ret>>

\* finally: "bot.end()"; no bot overrides _do_end, which does nothing.
End ==
    /\ pc = "finally"
    /\ args' = [calls |-> Append(args.calls, "end")]
    /\ pc' = "disconnect"
    /\ UNCHANGED <<map, game, search, heapVars, ret>>

\* finally: "self._disconnect()", after which run returns or lets the
\* exception out.
Disconnect ==
    /\ pc = "disconnect"
    /\ IF game.session # None
       THEN /\ game' = [game EXCEPT !.session = "closed"]
            /\ args' = [calls |-> Append(args.calls, "close")]
       ELSE UNCHANGED <<game, args>>
    /\ pc' = "done"
    /\ UNCHANGED <<map, search, heapVars, ret>>

NextClient ==
    \/ \E ok \in BOOLEAN : Connect(ok)
    \/ \E fails \in BOOLEAN : Start(fails)
    \/ \E fails \in BOOLEAN : Move(fails)
    \/ \E answer \in {"finished", "more", "error"} : SendMove(answer)
    \/ End
    \/ Disconnect

SpecClient == InitClient /\ [][NextClient]_vars

(***************************************************************************)
(* MinimaxBot over the turns of one game: the Minimax object is made once, *)
(* at _do_start, with the Game; every move brings the Game up to date and  *)
(* then asks find.  search is the Minimax object ([max_depth]; its game is *)
(* the Game in the variable game).  A call of find gives [self, game,      *)
(* root, ret]: the Minimax object and the Game as the call leaves them,    *)
(* the root State it searched from and what it returns.                    *)
(***************************************************************************)
\* A find that searches from the root State of its first call, kept on
\* the Minimax object.
Minimax_call_keptRoot(self, m, g, coin) ==
    LET root == IF "root" \in DOMAIN self THEN self.root ELSE State_ofGame(g)
        top == Minimax_minimax(m, g, root, self.max_depth,
                               -Infinity, Infinity, 0, coin)
    IN [self |-> [max_depth |-> self.max_depth, root |-> root],
        game |-> g,
        root |-> root,
        ret |-> IF top.state = <<>>
                THEN [raised |-> "AttributeError", result |-> <<>>]
                ELSE [raised |-> None, result |-> Minimax_chain(top.state[1])]]

\* Minimax.find as a call on the object: "state = State(self.game)" builds
\* the root anew, nothing is assigned to self, and the Game is only read
\* (_populate copies the fields of the heroes and mines into new dicts).
Minimax_call(self, m, g, coin) ==
    [self |-> self, game |-> g, root |-> State_ofGame(g),
     ret |-> Minimax_find(m, g, self.max_depth, coin)]

InitTurns ==
    /\ game = Game_init(ServerState(FirstSituation))
    /\ map = Game_processState_map(ServerState(FirstSituation))
    /\ search \in {[max_depth |-> d] : d \in 1..(MaxDepth - 1)}
    /\ states = <<>> /\ heroDicts = <<>> /\ mineDicts = <<>>
    /\ pc = "start"
    /\ args = [state |-> ServerState(FirstSituation)]
    /\ ret = Return(None)

\* "moves = self.search.find()"; out is what the call gives.
FindNowGives(coin, out) ==
    /\ pc' = "find"
    /\ args' = [state |-> args.state, coin |-> coin, root |-> out.root]
    /\ search' = out.self
    /\ game' = out.game
    /\ ret' = out.ret
    /\ UNCHANGED <<map, heapVars>>

FindNow(coin) == FindNowGives(coin, Minimax_call(search, map, game, coin))

NextTurns ==
    \/ /\ pc = "start"
       /\ Update(args.state)
    \/ /\ pc # "start"
       /\ \E w \in Situations(game.turn + 4) : Update(ServerState(w))
    \/ \E coin \in BOOLEAN : FindNow(coin)

SpecTurns == InitTurns /\ [][NextTurns]_vars

(***************************************************************************)
(* Two CharmingMoleBots of one name in one game: one plays the hero whose  *)
(* turn it is and the other the hero after it, and each has found the      *)
(* other at _do_start (search.friendly[i] is _friendly_hero_ids of the bot *)
(* of hero i).  Each bot is asked for its move on the game as it stands;   *)
(* args and ret hold, per hero asked, what random.choice gave and what     *)
(* _do_move returned.                                                      *)
(***************************************************************************)
MoleLives == {100, 30, 15}

InitMoles ==
    /\ \E n \in Sizes \ {1} : \E g \in GamesOfSize(n) :
       \E la, lb \in MoleLives :
          /\ \A i \in HeroIds : g.heroes[i].life = 100
          /\ game = [g EXCEPT !.heroes[Mover(g.turn)].life = la,
                              !.heroes[Rival(g.turn)].life = lb]
          /\ map = GameMapOf(n, g)
    /\ search = [friendly |-> [i \in {Mover(game.turn), Rival(game.turn)} |->
                                  {Mover(game.turn), Rival(game.turn)} \ {i}]]
    /\ states = <<>> /\ heroDicts = <<>> /\ mineDicts = <<>>
    /\ pc = "idle"
    /\ args = <<>>
    /\ ret = <<>>

\* The bot of hero id is asked: "return self._do_move()".
MoleMove(id, random) ==
    /\ id \notin DOMAIN ret
    /\ pc' = "CharmingMoleBot"
    /\ args' = [i \in DOMAIN args \cup {id} |->
                   IF i = id THEN [random |-> random] ELSE args[i]]
    /\ ret' = [i \in DOMAIN ret \cup {id} |->
                  IF i = id
                  THEN CharmingMoleBot_do_move(map, game, id,
                                               search.friendly[id], random)
                  ELSE ret[i]]
    /\ UNCHANGED <<map, game, search, heapVars>>

\* The answers are sent; the same game is looked at again.
MolesForget ==
    /\ pc # "idle"
    /\ pc' = "idle"
    /\ args' = <<>>
    /\ ret' = <<>>
    /\ UNCHANGED <<map, game, search, heapVars>>

NextMoles ==
    \/ \E id \in DOMAIN search.friendly : \E random \in Commands :
          MoleMove(id, random)
    \/ MolesForget

SpecMoles == InitMoles /\ [][NextMoles]_vars

(***************************************************************************)
(* Reference definitions the properties are stated with: they are computed *)
(* from the board alone, not by the pathfinder.                            *)
(***************************************************************************)
Walkable(m) ==
    {c \in Cells(m.size) : m.board[c] \in {TILE_EMPTY, TILE_SPAWN}}

Adjacent4(c, d) == Abs(c[1] - d[1]) + Abs(c[2] - d[2]) = 1

\* The cells a 4-connected walk over walkable cells reaches from those of S.
RECURSIVE Flood(_, _)
Flood(m, S) ==
    LET S2 == S \cup {c \in Walkable(m) : \E d \in S : Adjacent4(c, d)}
    IN IF S2 = S THEN S ELSE Flood(m, S2)

\* Where a walk to the goal may end: the goal, or next to it when the goal
\* cannot be entered.
Targets(m, goal) ==
    IF goal \in Walkable(m) THEN {goal}
    ELSE {c \in Cells(m.size) : Adjacent4(c, goal)}

HasRoute(m, start, goal) == Flood(m, {start}) \cap Targets(m, goal) # {}

EnterCost(m, c) == IF m.board[c] = TILE_SPAWN THEN 4 ELSE 1

SetMin(S) == CHOOSE v \in S : \A w \in S : v <= w

\* The least cost of a walk from start to each cell, as a set of
\* <<cell, cost>> pairs, by relaxing n times.
CostIn(D, c) == (CHOOSE p \in D : p[1] = c)[2]

RECURSIVE Relax(_, _, _)
Relax(m, D, n) ==
    IF n = 0 THEN D
    ELSE LET D2 == {<<p[1],
                      SetMin({p[2]} \cup {q[2] + EnterCost(m, p[1]) :
                                             q \in {q \in D : Adjacent4(p[1], q[1])}})>> :
                       p \in D}
         IN IF D2 = D THEN D ELSE Relax(m, D2, n - 1)

LeastCost(m, start, goal) ==
    LET W == Walkable(m) \cup {start}
        D0 == {<<c, IF c = start THEN 0 ELSE Infinity>> : c \in W}
        D == Relax(m, D0, Cardinality(W))
    IN SetMin({Infinity} \cup {CostIn(D, c) : c \in Targets(m, goal) \cap W})

RECURSIVE SeqSum(_)
SeqSum(s) == IF s = <<>> THEN 0 ELSE Head(s) + SeqSum(Tail(s))

PathCost(m, path) == SeqSum([i \in 1..Len(path) |-> EnterCost(m, path[i])])

Returned(op) == pc = op

FindStart == <<args.x0, args.y0>>

FindGoal == <<args.x1, args.y1>>

\* Where the hero is after walking the returned list.
FinalCell == IF ret.path = <<>> THEN FindStart ELSE ret.path[Len(ret.path)]

(***************************************************************************)
(* C1: the path AStar.find returns has the least total cost among the      *)
(* 4-connected walks over traversable tiles from the start to the goal,    *)
(* entering an Empty tile costing 1 and a Spawn tile 4.  The code does not *)
(* keep this: a cell is closed when it is first pushed, so a cheaper way   *)
(* to it found later is ignored.                                           *)
(***************************************************************************)
C1_PathHasLeastCost ==
    (Returned("find") /\ ret.found)
        => PathCost(map, ret.path) = LeastCost(map, FindStart, FindGoal)

C3_NoneIffNoRoute ==
    Returned("find")
        => /\ ret.pops <= map.size * map.size
           /\ ~ret.raised
           /\ (~ret.found <=> ~HasRoute(map, FindStart, FindGoal))

\* A goal other than the start whose in-bounds neighbours are all Wall.
C3_Witness ==
    /\ Returned("find")
    /\ ~ret.found
    /\ FindGoal # FindStart
    /\ \A c \in Cells(map.size) :
          Adjacent4(c, FindGoal) => map.board[c] = TILE_WALL

(***************************************************************************)
(* C4: a returned list is a well-formed walk: it does not hold the start,  *)
(* holds no cell twice, starts next to the start, steps between            *)
(* 4-adjacent cells, stays in bounds and off Wall, Tavern and Mine tiles,  *)
(* and ends on the goal when the goal is traversable and is not the start. *)
(***************************************************************************)
C4_PathIsWalk ==
    (Returned("find") /\ ret.found)
        => LET p == ret.path
           IN /\ \A i \in 1..Len(p) : p[i] # FindStart
              /\ \A i, j \in 1..Len(p) : i # j => p[i] # p[j]
              /\ Len(p) > 0 => Adjacent4(p[1], FindStart)
              /\ \A i \in 1..(Len(p) - 1) : Adjacent4(p[i], p[i + 1])
              /\ \A i \in 1..Len(p) :
                    /\ p[i] \in Cells(map.size)
                    /\ map.board[p[i]] \notin {TILE_WALL, TILE_TAVERN, TILE_MINE}
              /\ (/\ map.board[FindGoal] \in {TILE_EMPTY, TILE_SPAWN}
                  /\ FindGoal # FindStart)
                     => (Len(p) > 0 /\ p[Len(p)] = FindGoal)

C4_Witness ==
    /\ Returned("find")
    /\ ret.found
    /\ Len(ret.path) >= 4
    /\ \E c \in Cells(map.size) : map.board[c] = TILE_WALL
    /\ map.board[FindGoal] = TILE_SPAWN

(***************************************************************************)
(* The search the properties are stated with: an exhaustive depth-bounded  *)
(* minimax of evaluate, the searching hero (every fourth ply from the      *)
(* root) maximising and the other three minimising.                        *)
(***************************************************************************)
SetMax(S) == CHOOSE v \in S : \A w \in S : w <= v

RECURSIVE RefMinimax(_, _, _, _, _)
RefMinimax(m, g, state, depth, ply) ==
    IF depth = 0 \/ terminal(g, state) THEN evaluate(g, state)
    ELSE LET kids == generate(m, state)
             vals == {RefMinimax(m, g, kids[k], depth - 1, ply + 1) :
                         k \in 1..Len(kids)}
         IN IF ply % 4 = 0 THEN SetMax(vals) ELSE SetMin(vals)

Root == State_ofGame(game)

\* The search expands the root and meets no terminal state on the way down.
DeepSearch ==
    /\ search.max_depth >= 1
    /\ game.turn + search.max_depth <= game.max_turns * 4

(***************************************************************************)
(* C5: on a game tree (every state has a child) the value _minimax returns *)
(* at the root equals the exhaustive minimax value, and the child it       *)
(* returns attains that value.                                             *)
(***************************************************************************)
C5_PrunedEqualsExhaustive ==
    (Returned("_minimax") /\ map.size >= 2)
        => LET exact == RefMinimax(map, game, Root, search.max_depth, 0)
           IN /\ ret.value = exact
              /\ (search.max_depth >= 1 /\ ~terminal(game, Root))
                    => /\ ret.state # <<>>
                       /\ RefMinimax(map, game, ret.state[1],
                                     search.max_depth - 1, 1) = exact

(***************************************************************************)
(* C6: when the search is at least one ply deep and meets no terminal      *)
(* state, find returns one command per ply (max_depth commands), the first *)
(* being a move of the searching hero.                                     *)
(***************************************************************************)
C6_FindReturnsOneCommandPerPly ==
    (Returned("find") /\ map.size >= 2 /\ DeepSearch)
        => /\ ret.raised = None
           /\ Len(ret.result) = search.max_depth
           /\ \E k \in 1..Len(generate_moves(map, Root)) :
                 generate_moves(map, Root)[k][1] = ret.result[1]

(***************************************************************************)
(* C7: when generate yields no state at the root, neither find nor         *)
(* _do_move raises, and _do_move delivers Stay.                            *)
(***************************************************************************)
C7_NoChildFallsBackToStay ==
    (/\ pc \in {"find", "_do_move"}
     /\ DeepSearch
     /\ generate(map, Root) = <<>>)
        => /\ ret.raised = None
           /\ Returned("_do_move") => ret.result = STAY

(***************************************************************************)
(* C8: whatever the game, the move a bot decides on is one of North,       *)
(* South, East, West, Stay, and deciding raises nothing; so too when the   *)
(* pathfinder finds no path to the target.                                 *)
(***************************************************************************)
C8_BotsReturnOneCommand ==
    pc \in {"MinerBot", "AggressiveBot", "CharmingMoleBot"}
        => /\ ret.raised = None
           /\ ret.result \in Commands

(***************************************************************************)
(* C9: no two State objects share a hero dict or a mines dict, and a step  *)
(* of the search changes what a State object holds (heroes, mines, turn,   *)
(* last_move) only for the clone that is being simulated: the parent and   *)
(* the siblings of that clone stay as they were.                           *)
(***************************************************************************)
HeroAddrs(s) == {states[s].heroes[i] : i \in 1..Len(states[s].heroes)}

NoSharing ==
    /\ \A s, t \in 1..Len(states) :
          s # t => /\ HeroAddrs(s) \cap HeroAddrs(t) = {}
                   /\ states[s].mines # states[t].mines
    /\ \A s \in 1..Len(states) :
          Cardinality(HeroAddrs(s)) = Len(states[s].heroes)

OthersKept ==
    \A t \in 1..Len(states) :
        \/ pc = "cloned" /\ t = Len(states)
        \/ /\ StateView(t)' = StateView(t)
           /\ states'[t] = states[t]

C9_StatesShareNothing == [](NoSharing) /\ [][OthersKept]_vars

\* A clone has just been simulated: it took the mine its parent still sees
\* as not its own, and an earlier sibling stands elsewhere.
C9_Witness ==
    /\ pc = "generate"
    /\ args.k > 2
    /\ LET c == Len(states)
           p == states[c].parent[1]
       IN /\ StateView(c).mines # StateView(p).mines
          /\ StateView(c).heroes # StateView(p).heroes
          /\ \E t \in 1..(c - 1) :
                /\ states[t].parent = <<p>>
                /\ StateView(t).heroes # StateView(c).heroes
                /\ StateView(t).mines = StateView(p).mines

(***************************************************************************)
(* C10: generate returns one child for each of North, West, South, East    *)
(* whose destination is inside the grid (a wall there does not matter) and *)
(* none for Stay; each child has the expanded State as parent and its      *)
(* command as last_move; on a map of size >= 2 that is 2 to 4 children.    *)
(***************************************************************************)
Destination(s, move) ==
    LET hero == StateView(s).heroes[(states[s].turn % 4) + 1]
    IN <<hero.x + CommandDir(move)[1], hero.y + CommandDir(move)[2]>>

C10_OneChildPerInGridMove ==
    Returned("generated")
        => LET s == args.state
               wanted == {mv \in {NORTH, WEST, SOUTH, EAST} :
                             Destination(s, mv) \in Cells(map.size)}
           IN /\ Len(ret) = Cardinality(wanted)
              /\ {states[ret[k]].last_move : k \in 1..Len(ret)} = wanted
              /\ \A k \in 1..Len(ret) :
                    /\ states[ret[k]].parent = <<s>>
                    /\ states[ret[k]].last_move # STAY
              /\ \A j, k \in 1..Len(ret) : j # k => ret[j] # ret[k]
              /\ map.size >= 2 => (2 <= Len(ret) /\ Len(ret) <= 4)

\* Four children, one of them for a move into a wall.
C10_Witness ==
    /\ Returned("generated")
    /\ Len(ret) = 4
    /\ \E k \in 1..Len(ret) :
          map.board[Destination(args.state, states[ret[k]].last_move)] = TILE_WALL

(***************************************************************************)
(* C11.  The value evaluate gives a State is 1000 times (the mines the     *)
(* searching hero owns less the mines another hero owns, a mine of nobody  *)
(* counting for neither), less the Manhattan distance from the searching   *)
(* hero to the nearest mine it does not own (0 when there is none), plus   *)
(* an integer nearest to a tenth of its life; the searching hero is the    *)
(* one at the list index game.turn mod 4.                                  *)
(***************************************************************************)
Searcher == game.turn % 4

MinesOwnedBy(state, owners) ==
    Cardinality({p \in DOMAIN state.mines : state.mines[p] \in owners})

NearestForeignMine(state, id) ==
    LET hero == state.heroes[id]
        far == {Abs(hero.x - p[1]) + Abs(hero.y - p[2]) :
                   p \in {q \in DOMAIN state.mines : state.mines[q] # id}}
    IN IF far = {} THEN 0 ELSE SetMin(far)

NearestTenths(life) ==
    {r \in 0..life : 10 * r - life <= 5 /\ life - 10 * r <= 5}

C11_EvaluateIsMinesDistanceLife ==
    Returned("evaluate") =>
        LET id == Searcher + 1
        IN \E r \in NearestTenths(args.state.heroes[id].life) :
              ret = 1000 * (MinesOwnedBy(args.state, {id})
                               - MinesOwnedBy(args.state, HeroIds \ {id}))
                        - NearestForeignMine(args.state, id) + r

\* A life ending in 5, a mine of the hero, one of another hero, one of
\* nobody, and the nearest foreign mine two or more steps away.
C11_Witness ==
    /\ Returned("evaluate")
    /\ args.state.heroes[Searcher + 1].life % 10 = 5
    /\ MinesOwnedBy(args.state, {Searcher + 1}) = 1
    /\ MinesOwnedBy(args.state, HeroIds \ {Searcher + 1}) = 1
    /\ MinesOwnedBy(args.state, {NoOwner}) = 1
    /\ NearestForeignMine(args.state, Searcher + 1) >= 2

(***************************************************************************)
(* C12.  With max_depth 0, _minimax returns the value evaluate gives the   *)
(* root State for the searching hero together with the root State itself,  *)
(* and find returns the empty list of commands and raises nothing.         *)
(***************************************************************************)
C12_DepthZeroReturnsRootAndNoCommand ==
    search.max_depth = 0 =>
        /\ Returned("_minimax") =>
              /\ ret.value = evaluate(game, Root)
              /\ ret.state = <<Root>>
        /\ Returned("find") =>
              /\ ret.raised = None
              /\ ret.result = <<>>

\* find has returned from a search of depth 0 over a 3x3 game whose mine
\* the rival owns.
C12_Witness ==
    /\ search.max_depth = 0
    /\ Returned("find")
    /\ map.size = 3
    /\ MinesOwnedBy(Root, {Rival(game.turn)}) = 1
    /\ ret.result = <<>>

(***************************************************************************)
(* C13.  When a later sibling's value equals the best value so far and the *)
(* coin ("random.random() < 0.3") comes up, the sibling replaces the       *)
(* incumbent: a search of depth 1 whose coin always comes up returns the   *)
(* last explored of the children of the root that have the greatest value. *)
(***************************************************************************)
RootChildren == sort(generate(map, Root))

\* The value the loop at the root has for its k-th child in a search of
\* depth 1: the child is a leaf at color 1 and the root negates once more.
RootChildValue(k) == evaluate(game, RootChildren[k])

LastBestRootChild ==
    CHOOSE k \in 1..Len(RootChildren) :
        /\ \A j \in 1..Len(RootChildren) : RootChildValue(j) <= RootChildValue(k)
        /\ \A j \in (k + 1)..Len(RootChildren) :
              RootChildValue(j) < RootChildValue(k)

C13_TieReplacesIncumbentOnCoin ==
    (/\ Returned("_minimax")
     /\ search.max_depth = 1
     /\ ~terminal(game, Root)
     /\ RootChildren # <<>>
     /\ args.coin)
        => ret.state = <<RootChildren[LastBestRootChild]>>

(***************************************************************************)
(* C14.  When the mover strikes a hero whose life is 20 or less, the hero  *)
(* has after the call life 100, stands on its spawn position, has          *)
(* mine_count 0 and every mine it owned is owned by nobody; a hero struck  *)
(* with a life above 20 stays where it is and keeps its mines.             *)
(***************************************************************************)
\* The heroes standing where the command takes the mover of the State.
StruckBy(state, move) ==
    LET i == (state.turn % 4) + 1
        d == CommandDir(move)
    IN {j \in HeroIds \ {i} :
           /\ d # <<0, 0>>
           /\ state.heroes[j].x = state.heroes[i].x + d[1]
           /\ state.heroes[j].y = state.heroes[i].y + d[2]}

MinesOf(state, j) == {pos \in DOMAIN state.mines : state.mines[pos] = j}

C14_StruckAtTwentyOrLessRespawns ==
    Returned("simulate") =>
        \A j \in HeroIds : StruckBy(args.state, args.move) = {j} =>
            LET was == args.state.heroes[j]
                is == ret.heroes[j]
            IN IF was.life <= 20
               THEN /\ is.life = 100
                    /\ <<is.x, is.y>> = <<was.spawn_x, was.spawn_y>>
                    /\ is.mine_count = 0
                    /\ \A pos \in MinesOf(args.state, j) :
                          ret.mines[pos] = NoOwner
               ELSE /\ <<is.x, is.y>> = <<was.x, was.y>>
                    /\ is.life <= was.life - 20
                    /\ is.mine_count = was.mine_count
                    /\ MinesOf(ret, j) = MinesOf(args.state, j)

\* A hero with life 20 that owns the mine is struck away from its spawn.
C14_Witness ==
    /\ Returned("simulate")
    /\ \E j \in HeroIds :
          /\ StruckBy(args.state, args.move) = {j}
          /\ args.state.heroes[j].life = 20
          /\ MinesOf(args.state, j) # {}
          /\ <<args.state.heroes[j].x, args.state.heroes[j].y>>
                 # <<args.state.heroes[j].spawn_x, args.state.heroes[j].spawn_y>>
          /\ ret.heroes[j].life = 100

(***************************************************************************)
(* C15.  In every State reached from the root State of a game by simulated *)
(* commands, each hero's mine_count is the number of entries of the mines  *)
(* dict whose owner is the id of the hero.                                 *)
(***************************************************************************)
CountsMatchOwners(state) ==
    \A j \in HeroIds :
        state.heroes[j].mine_count = Cardinality(MinesOf(state, j))

C15_MineCountIsMinesOwned ==
    /\ CountsMatchOwners(args.state)
    /\ Returned("simulate") => CountsMatchOwners(ret)

\* The second command in a row: the hero that took the mine with the first
\* command is struck dead by the second and the mine is left to nobody.
C15_Witness ==
    /\ Returned("simulate")
    /\ args.plies = 2
    /\ \E pos \in DOMAIN ret.mines : \E j \in HeroIds :
          /\ State_ofGame(game).mines[pos] # j
          /\ args.state.mines[pos] = j
          /\ StruckBy(args.state, args.move) = {j}
          /\ ret.mines[pos] = NoOwner
          /\ ret.heroes[j].mine_count = 0

(***************************************************************************)
(* C16.  simulate applied with the same command to two States that hold    *)
(* the same positions, lives, gold, mine counts, mine owners and turn      *)
(* leaves the two States equal in all of these: two children of equal      *)
(* parents that were made with the same command are equal.                 *)
(***************************************************************************)
\* The State objects on which simulate has been run.
Simulated ==
    {s \in 1..Len(states) :
        /\ states[s].parent # <<>>
        /\ ~(pc = "cloned" /\ s = Len(states))}

Snapshot(s) ==
    [turn |-> StateView(s).turn, heroes |-> StateView(s).heroes,
     mines |-> StateView(s).mines]

C17_ReadOutsideRaises ==
    (/\ Returned("__getitem__")
     /\ <<args.x, args.y>> \notin Cells(map.size))
        => ret.raised # None

(***************************************************************************)
(* C18.  On a map with no tile but Empty, AStar.find returns for every     *)
(* start and goal a path, and the number of its cells and its total cost   *)
(* both equal the Manhattan distance from the start to the goal.           *)
(***************************************************************************)
AllEmpty(m) == \A c \in Cells(m.size) : m.board[c] = TILE_EMPTY

C18_OpenMapPathIsManhattan ==
    (Returned("find") /\ AllEmpty(map))
        => /\ ret.found
           /\ ~ret.raised
           /\ Len(ret.path) = Abs(args.x0 - args.x1) + Abs(args.y0 - args.y1)
           /\ PathCost(map, ret.path)
                  = Abs(args.x0 - args.x1) + Abs(args.y0 - args.y1)

\* A find from one corner of the all-Empty 5x5 map to the opposite one.
C18_Witness ==
    /\ Returned("find")
    /\ AllEmpty(map)
    /\ map.size = 5
    /\ FindStart = <<4, 0>>
    /\ FindGoal = <<0, 4>>
    /\ Len(ret.path) = 8

(***************************************************************************)
(* C19.  On the 5x5 map whose one tile that is not Empty is the Mine at    *)
(* (4, 4), AStar.find(0, 0, 4, 4) returns a path of 7 cells with total     *)
(* cost 7: the goal is a Mine, the search stops on a cell next to it, and  *)
(* neither the start nor the Mine is in the path.  (As first stated: a     *)
(* path of 8 steps with total cost 8.)                                     *)
(***************************************************************************)
MineCornerFind ==
    /\ Returned("find")
    /\ map = MineCornerBoard
    /\ FindStart = <<0, 0>>
    /\ FindGoal = <<4, 4>>

Miner == game.heroes[1]

MineDistance == Abs(Miner.x - game.mines[1].x) + Abs(Miner.y - game.mines[1].y)

MineCaptured == game.mines[1].owner = Miner.id

Commanded == Returned("MinerBot") /\ ~MineCaptured

CommandsLeadToMine ==
    /\ (Commanded /\ game.turn = 0) => ret.result \in {EAST, SOUTH}
    /\ (Commanded /\ MineDistance = 1) =>
          /\ Miner.x + CommandDir(ret.result)[1] = game.mines[1].x
          /\ Miner.y + CommandDir(ret.result)[2] = game.mines[1].y

EachTurnNearer ==
    /\ (Commanded /\ MineDistance > 1) => MineDistance' = MineDistance - 1
    /\ (Commanded /\ MineDistance = 1) => MineCaptured'

Mole == game.heroes[Mover(game.turn)]

MoleAnswered ==
    pc = "CharmingMoleBot" /\ ret.raised = None /\ ret.result \in Commands

FriendlyOn(cell) ==
    \E i \in 1..Len(game.heroes) :
        /\ game.heroes[i].id # Mole.id
        /\ game.heroes[i].id \in search.friendly
        /\ <<game.heroes[i].x, game.heroes[i].y>> = cell

C21_NeverOntoFriendlyHero ==
    MoleAnswered =>
        ~FriendlyOn(CharmingMoleBot_get_position_after_move(Mole, ret.result))

(***************************************************************************)
(* C22: Game.update changes only the turn, the crashed, mine_count, gold,  *)
(* life, last_dir and position of each hero and the owner of each mine,    *)
(* which becomes the owner the board shows at the position of the mine     *)
(* (None for '-'); after any number of updates the Map and its tiles, the  *)
(* hero, mine and tavern objects and their order, the ids and spawns of    *)
(* the heroes and the positions of the mines and taverns are those of the  *)
(* construction.                                                           *)
(***************************************************************************)
\* The Game with everything update may set blanked out.
Frozen(g) ==
    [g EXCEPT
        !.turn = 0,
        !.heroes = [i \in 1..Len(g.heroes) |->
            [g.heroes[i] EXCEPT !.crashed = FALSE, !.mine_count = 0,
                                !.gold = 0, !.life = 0, !.last_dir = None,
                                !.x = 0, !.y = 0]],
        !.mines = [k \in 1..Len(g.mines) |->
            [g.mines[k] EXCEPT !.owner = NoOwner]]]

\* The owner the board of the state shows for the mine.
ShownOwner(state, mine) ==
    LET tile == TileAt(state.game.board, mine.x, mine.y)
    IN IF tile[2] = "-" THEN NoOwner
       ELSE CHOOSE i \in 1..Len(state.game.heroes) : PyStr(i) = tile[2]

C22_UpdateSetsOnlyTheVariableFields ==
    /\ map = Game_processState_map(ServerState(FirstSituation))
    /\ Frozen(game) = Frozen(Game_init(ServerState(FirstSituation)))
    /\ pc = "update" =>
          \A k \in 1..Len(game.mines) :
              game.mines[k].owner = ShownOwner(args.state, game.mines[k])

\* After three updates: hero 1 stands at (0, 1) with life 37, hero 4 has
\* crashed, the mines are owned by hero 3 and by nobody.
C22_Witness ==
    /\ pc = "update"
    /\ game.turn = 8
    /\ game.heroes[1].x = 0 /\ game.heroes[1].y = 1
    /\ game.heroes[1].life = 37
    /\ game.heroes[4].crashed
    /\ game.heroes[3].mine_count = 1 /\ game.heroes[3].gold = 12
    /\ game.mines[1].owner = 3 /\ game.mines[2].owner = NoOwner

(***************************************************************************)
(* C23: AStar.find never changes the Map and keeps nothing between calls:  *)
(* after any sequence of finds on one AStar instance, a find returns what  *)
(* the first find of a fresh AStar over the same map returns for the same  *)
(* arguments.                                                              *)
(***************************************************************************)
FreshFind ==
    AStar_call(AStar_init(map), map, args.x0, args.y0, args.x1, args.y1).ret

FindKeepsNothing ==
    /\ search = AStar_init(map)
    /\ pc = "find" => ret = FreshFind

Called(name) == \E k \in 1..Len(args.calls) : args.calls[k] = name

C24_SimpleBotsAcceptTheLifecycleCalls ==
    search.class \in {"RandomBot", "MinerBot", "AggressiveBot"} =>
        /\ ret.raised # "TypeError"
        /\ (search.class # "RandomBot" /\ Called("move")) =>
              (search.game # None /\ search.search # None)

(***************************************************************************)
(* C28: in every execution of Client.run (normal completion, connection    *)
(* failure, failed move submission, an exception raised by bot.start or    *)
(* bot.move) bot.end() is called exactly once, after the last bot.move,    *)
(* and the HTTP session is closed after bot.end() has returned.            *)
(***************************************************************************)
CallsOf(name) == {k \in 1..Len(args.calls) : args.calls[k] = name}

C28_EndOnceThenSessionClosed ==
    /\ Cardinality(CallsOf("end")) <= 1
    /\ \A e \in CallsOf("end") : \A k \in CallsOf("move") \cup CallsOf("post") : k < e
    /\ \A c \in CallsOf("close") : \E e \in CallsOf("end") : e < c
    /\ pc = "done" =>
          /\ Cardinality(CallsOf("end")) = 1
          /\ Cardinality(CallsOf("close")) = 1
          /\ game.session = "closed"

\* run is over after a move submission failed on the second move.
C28_Witness ==
    /\ pc = "done"
    /\ ret.raised = "IOError"
    /\ args.calls = <<"post", "start", "move", "post", "move", "post", "end", "close">>

(***************************************************************************)
(* C29: in every execution of Client.run the order is start, the moves,    *)
(* end: bot.end() is never called in a run in which bot.start(state) has   *)
(* not been called before it, and bot.move is never called before          *)
(* bot.start.                                                              *)
(***************************************************************************)
C29_StartBeforeMovesBeforeEnd ==
    /\ \A e \in CallsOf("end") : \E s \in CallsOf("start") : s < e
    /\ \A m \in CallsOf("move") : \E s \in CallsOf("start") : s < m

(***************************************************************************)
(* C25: among the frontier entries of equal priority f = g + h, AStar pops *)
(* the one that was pushed earliest, on every map and for every start and  *)
(* goal.  The loop of find is followed once more, and each pop is compared *)
(* with the pushes before it (the queue is held in the order of the        *)
(* pushes).                                                                *)
(***************************************************************************)
\* The queue after the neighbours nb of the popped state are pushed.
RECURSIVE PushedAll(_, _, _, _, _, _, _)
PushedAll(m, x1, y1, queue, state, nb, k) ==
    IF k > Len(nb) THEN queue
    ELSE LET g_ == state.g + AStar_stepCost(Map_getitem(m, nb[k][1], nb[k][2]))
             h_ == Abs(nb[k][1] - x1) + Abs(nb[k][2] - y1)
         IN PushedAll(m, x1, y1,
                HeapQueue_push(queue, [x |-> nb[k][1], y |-> nb[k][2], g |-> g_,
                                       chain |-> Append(state.chain, nb[k])],
                               g_ + h_),
                state, nb, k + 1)

\* The entry popped from the queue has no entry of its priority before it.
PopsEarliest(queue) ==
    \A j \in 1..(HeapQueue_top(queue) - 1) :
        queue[j].f # queue[HeapQueue_top(queue)].f

RECURSIVE EveryPopIsEarliest(_, _, _, _, _, _)
EveryPopIsEarliest(m, x1, y1, adjacent, queue, visited) ==
    IF HeapQueue_is_empty(queue) THEN TRUE
    ELSE LET i == HeapQueue_top(queue)
             state == queue[i]
             nb == AStar_neighbors(m, state.x, state.y, visited)
         IN /\ PopsEarliest(queue)
            /\ \/ AStar_isGoal(state.x, state.y, x1, y1, adjacent)
               \/ EveryPopIsEarliest(m, x1, y1, adjacent,
                      PushedAll(m, x1, y1, HeapQueue_without(queue, i),
                                state, nb, 1),
                      visited \o nb)

C25_TiesPopInPushOrder ==
    Returned("find") =>
        EveryPopIsEarliest(map, args.x1, args.y1,
            Map_getitem(map, args.x1, args.y1) \in obstacle_tiles,
            HeapQueue_push(<<>>, [x |-> args.x0, y |-> args.y0, g |-> 0,
                                  chain |-> <<FindStart>>], 0),
            <<FindStart>>)

(***************************************************************************)
(* C26: the search treats a state as a leaf exactly when it lies max_depth *)
(* plies below the root: no state is expanded deeper, and every state at a *)
(* shallower ply is expanded whatever the max_turns of the game.  The      *)
(* first child of a state the search expands is always searched, so the    *)
(* descent through the first children shows where the search stops.        *)
(***************************************************************************)
\* The ply of the leaf that _minimax reaches going down the first children.
RECURSIVE FirstLeafPly(_, _, _, _, _)
FirstLeafPly(m, g, state, depth, ply) ==
    IF depth = 0 \/ terminal(g, state) THEN ply
    ELSE IF generate(m, state) = <<>> THEN ply
    ELSE FirstLeafPly(m, g, sort(generate(m, state))[1], depth - 1, ply + 1)

C26_LeafExactlyAtMaxDepth ==
    (Returned("_minimax") /\ map.size >= 2) =>
        FirstLeafPly(map, game, Root, search.max_depth, 0) = search.max_depth

(***************************************************************************)
(* C27: over any sequence of Game.update and Minimax.find on one Minimax   *)
(* object, each find builds its root State from the heroes, mines and turn *)
(* of the Game as they are at that call, never from an earlier turn or an  *)
(* earlier search, and find leaves the turn, heroes, mines and map of the  *)
(* Game as they were.                                                      *)
(***************************************************************************)
\* The root State holds what the Game holds now.
RootIsOfNow(root) ==
    /\ root.turn = game.turn
    /\ root.last_move = None /\ root.parent = <<>>
    /\ \A i \in 1..Len(game.heroes) :
          /\ root.heroes[i].x = game.heroes[i].x
          /\ root.heroes[i].y = game.heroes[i].y
          /\ root.heroes[i].life = game.heroes[i].life
          /\ root.heroes[i].gold = game.heroes[i].gold
          /\ root.heroes[i].mine_count = game.heroes[i].mine_count
    /\ \A k \in 1..Len(game.mines) :
          root.mines[<<game.mines[k].x, game.mines[k].y>>] = game.mines[k].owner

FindLeavesGame == pc' = "find" => (game' = game /\ map' = map)

Intended(id) ==
    IF game.heroes[id].life < 50 /\ game.heroes[id].gold > 2
    THEN Bot_go_to_nearest_tavern(map, game, game.heroes[id], args[id].random)
    ELSE CharmingMoleBot_go_to_nearest_mine(map, game, game.heroes[id],
                                            search.friendly[id], args[id].random)

LeadsOnto(id, other) ==
    /\ Intended(id).raised = None
    /\ CharmingMoleBot_get_position_after_move(game.heroes[id], Intended(id).result)
           = <<game.heroes[other].x, game.heroes[other].y>>

FaceEachOther(lo, hi) ==
    /\ pc = "CharmingMoleBot"
    /\ DOMAIN ret = {lo, hi}
    /\ lo < hi
    /\ game.heroes[lo].life >= 25 /\ game.heroes[hi].life >= 25
    /\ LeadsOnto(lo, hi) /\ LeadsOnto(hi, lo)

====
